---- MODULE Spec2Model ----
(***************************************************************************)
(* Narration generation and library synchronisation of the audio-book app. *)
(* The model follows the admin session of App (src/unnamed/part_003,       *)
(* lines 75-1811): the in-memory catalog `books`, the per-part run token   *)
(* and abort-controller maps, every asynchronous generation run with its   *)
(* ticker and hard timeout, the edit / delete / cancel / repair handlers,  *)
(* and the shared row the catalog is persisted to and reloaded from        *)
(* (src/services/supabaseService.ts).                                      *)
(*                                                                         *)
(* The catalog is flattened: every part lives in the one selected chapter  *)
(* of the one selected book, so a location (bookId, chapterId, partId) is  *)
(* the part id.  A part's text and voice are small values; an audio file   *)
(* remembers the text and voice it was synthesised from.                   *)
(***************************************************************************)
EXTENDS Integers, Sequences, FiniteSets, TLC

\* ------------------------------------------------------------------ bounds
NumParts == 2        \* parts of the selected chapter
MaxRuns == 2         \* generation runs started in the session
MaxText == 1         \* texts are 0..MaxText
MaxTicks == 1        \* interval firings modelled per run
MaxClicks == 4       \* handler invocations by the user after mount
MaxSaveFailures == 1 \* remote puts that fail
MaxCalls == 2        \* loadBooks / saveBooks calls followed step by step
MaxTicked == 1       \* segments whose ticker is followed up to its cap
MaxBlocks == 1       \* full sample blocks in the PCM passed to pcmToMp3
MaxFrame == 2        \* bytes one encodeBuffer or flush call returns at most
MaxTail == 7         \* bytes after the last full block

Parts == 1..NumParts
RunIds == 1..MaxRuns
Calls == 1..MaxCalls
Texts == 0..MaxText
Voices == {"Zephyr", "Kore"}

\* ------------------------------------------------------- program constants
StartProgress == 2
TickStep == 7
TickCap == 92
UploadProgress == 96
DoneProgress == 100
SUPABASE_LOAD_RETRIES == 3
SUPABASE_SAVE_RETRIES == 2
sampleBlockSize == 1152

NoError == ""
CanceledByUser == "Generation canceled. You can re-generate this part."
CanceledByAbort == "Generation canceled. Click re-generate."
TimedOutMsg == "Generation timed out. Click re-generate."
FailedMsg == "Narration generation failed."

NoAudio == ""
InlineMp3 == "mp3"
NoFile == 0
NoUrl == <<>>
NoPart == [id |-> 0]
Absent == <<>>          \* no row under a key, nothing stored, null

VARIABLES
    books,              \* useState<Book[]>: part id -> Part, or NoPart
    loaded,             \* useState(false)
    initialLoadFailed,  \* useState(false)
    isAdmin,            \* useState(false)
    isDriveConnected,   \* useState(false)
    generationRunIds,   \* generationRunIdsRef: part id -> run id, 0 when absent
    generationControllers, \* generationControllersRef: part id -> run owning the controller, 0 when absent
    runs,               \* one record per invocation of generatePartAudio
    repair,             \* the running handleRepairPublicAudioLinks, if any
    drive,              \* objects in the Drive folder: file id = index
    remote,             \* the row under the shared library key
    clicks,             \* handler invocations by the user so far
    saveFailures,       \* failed remote puts so far
    config,             \* the build: Supabase client, IndexedDB cache, recorded legacy device id
    legacyRow,          \* the row under the legacy device id
    cache,              \* the value under ROOT_KEY of the IndexedDB store
    calls,              \* one record per loadBooks / saveBooks call
    net,                \* upserts whose attempt timed out and that may still be applied
    encoder,            \* the pcmToMp3 call being followed
    session,            \* the admin session cookie as the server sees it
    timeouts            \* the withTimeout promises of one store call, one per attempt

vars == <<books, loaded, initialLoadFailed, isAdmin, isDriveConnected,
          generationRunIds, generationControllers, runs, repair, drive,
          remote, clicks, saveFailures, config, legacyRow, cache, calls, net,
          encoder, session, timeouts>>

uiVars == <<loaded, initialLoadFailed, isAdmin, isDriveConnected>>
tokenVars == <<generationRunIds, generationControllers>>
encVars == <<encoder>>
layerVars == <<config, legacyRow, cache, calls, net, encVars, session, timeouts>>
storeVars == <<remote, saveFailures, layerVars>>
appVars == <<books, uiVars, tokenVars, runs, repair, drive, clicks, saveFailures, encVars,
             session, timeouts>>
\* what a login or logout leaves alone in the stores
keptVars == <<remote, saveFailures, config, legacyRow, cache, calls, net, encVars, timeouts>>

\* --------------------------------------------------------------- helpers

\* `https://drive.google.com/uc?export=download&id=${fileId}`
buildDrivePublicUrl(fileId) == <<"https://drive.google.com/uc?export=download&id=", fileId>>

\* the id query parameter of a URL, null (NoFile) when there is none
parseDriveFileIdFromUrl(urlValue) ==
    IF urlValue = NoUrl THEN NoFile
    ELSE IF Len(urlValue) >= 2 THEN urlValue[2] ELSE NoFile

\* { ...part, ...patch }
Patched(part, patch) ==
    [f \in DOMAIN part |-> IF f \in DOMAIN patch THEN patch[f] ELSE part[f]]

\* a map that patches every part of the chapter, not the one at the location
updatePartsOfChapter(bs, partId, patch) ==
    [q \in DOMAIN bs |-> IF bs[q] # NoPart THEN Patched(bs[q], patch) ELSE bs[q]]

\* setBooks(prev => prev.map(...)) replacing the part at the location
updatePartByLocation(bs, partId, patch) ==
    [q \in DOMAIN bs |->
        IF bs[q] # NoPart /\ bs[q].id = partId THEN Patched(bs[q], patch) ELSE bs[q]]

\* a part as submitPart (add) creates it
NewPart(p) ==
    [id |-> p, text |-> 0, voice |-> "Zephyr", isGenerating |-> FALSE,
     progress |-> 0, error |-> NoError, audioBase64 |-> NoAudio,
     driveFileId |-> NoFile, audioUrl |-> NoUrl, drivePublicUrl |-> NoUrl]

\* a part as an earlier release persisted it: inline bytes beside a Drive id
LegacyPart(p) ==
    [NewPart(p) EXCEPT !.audioBase64 = InlineMp3, !.driveFileId = p, !.progress = DoneProgress]

canPlayPart(part) ==
    part.audioBase64 # NoAudio \/ part.audioUrl # NoUrl
        \/ part.drivePublicUrl # NoUrl \/ part.driveFileId # NoFile

EmptyLibrary == [p \in Parts |-> NoPart]

\* the Drive folder at mount: the object an earlier session uploaded for part 1
\* (POST /api/drive/upload creates one object per call)
\* whose public-read grant did not go through (the endpoint ignores that)
SeedDrive == <<[part |-> 1, text |-> 0, voice |-> "Zephyr", public |-> FALSE]>>

IdleRun ==
    [part |-> 0, pc |-> "idle", aborted |-> FALSE, timedOut |-> FALSE,
     progress |-> 0, timer |-> FALSE, hardTimeout |-> FALSE,
     text |-> 0, voice |-> "Zephyr", uploads |-> 0, authorized |-> FALSE]

\* requireAdmin / isAdminAuthenticated: the cookie carries a token with a
\* valid signature, the admin's email and an expiry in the future
requireAdmin == session = "valid"

\* no alert shown yet
NoReport == [ok |-> 0, total |-> 0, failed |-> 0, firstFailureMessage |-> "", grantFailed |-> 0]

\* grantFailed counts the targets that were not given public-read access (the
\* request failed or the Drive API refused the grant); report is the last
\* batch's alert
IdleRepair ==
    [pc |-> "idle", targets |-> <<>>, next |-> 1, repairedLinks |-> {}, failed |-> 0,
     firstFailureMessage |-> "", grantFailed |-> 0, report |-> NoReport,
     authorized |-> FALSE]

\* the run holds its part's current token
IsCurrent(r) == runs[r].part # 0 /\ generationRunIds[runs[r].part] = r

\* a run between its start and its finally block
Active(r) == runs[r].pc \in {"tts", "encode", "upload"}

\* a loadBooks / saveBooks call that has not been made
\* no error caught or thrown
NoErr == [kind |-> "none", attempt |-> 0]

IdleCall ==
    [op |-> "none", arg |-> Absent, pc |-> "idle", attempt |-> 0,
     lastError |-> NoErr, thrown |-> NoErr,
     sharedBooks |-> Absent, legacyBooks |-> Absent, remoteBooks |-> Absent,
     ret |-> Absent, raised |-> FALSE,
     remoteCalled |-> FALSE, remoteFailed |-> FALSE, legacyLookup |-> FALSE,
     wrote |-> FALSE, cachedAtPut |-> FALSE]

\* the App before mount
\* pcmToMp3 not called
IdleEncoder ==
    [pc |-> "idle", byteLength |-> 0, numChannels |-> 0, i |-> 0, blocks |-> 0,
     mono |-> <<>>, left |-> <<>>, right |-> <<>>, status |-> "none",
     fed |-> <<>>, outputs |-> <<>>, flushes |-> <<>>, mp3Data |-> <<>>, result |-> <<>>]

\* withTimeout not called
IdleTimeout == [call |-> "unsent", timer |-> "idle", promise |-> "none", settled |-> 0]

AppInit ==
    /\ encoder = IdleEncoder
    /\ timeouts = [op |-> "none", at |-> [a \in 1..SUPABASE_LOAD_RETRIES |-> IdleTimeout]]
    /\ session = "none"
    /\ books = EmptyLibrary
    /\ loaded = FALSE
    /\ initialLoadFailed = FALSE
    /\ isAdmin = FALSE
    /\ isDriveConnected = FALSE
    /\ generationRunIds = [p \in Parts |-> 0]
    /\ generationControllers = [p \in Parts |-> 0]
    /\ runs = [r \in RunIds |-> IdleRun]
    /\ repair = IdleRepair
    /\ drive = SeedDrive
    /\ clicks = 0
    /\ saveFailures = 0

\* the build the App runs in: Supabase configured, storageService.ts without
\* an IndexedDB cache, no legacy device id recorded
AppBuild ==
    /\ config = [configured |-> TRUE, localCache |-> FALSE, legacyDeviceId |-> "none"]
    /\ legacyRow = Absent
    /\ cache = Absent
    /\ calls = [c \in Calls |-> IdleCall]
    /\ net = {}

Init ==
    /\ AppInit
    /\ AppBuild
    /\ remote \in {[p \in Parts |-> NewPart(p)],
                   [p \in Parts |-> IF p = 1 THEN LegacyPart(p) ELSE NewPart(p)]}

\* one more handler invocation by the user
Click == clicks < MaxClicks /\ clicks' = clicks + 1

\* ------------------------------------------------------ the shared row

\* normalizeBooksForClient, for one part
normalizePart(part) ==
    LET normalizedAudioUrl ==
            IF part.audioUrl # NoUrl THEN part.audioUrl
            ELSE IF part.drivePublicUrl # NoUrl THEN part.drivePublicUrl
            ELSE IF part.driveFileId # NoFile THEN buildDrivePublicUrl(part.driveFileId)
            ELSE NoUrl
        normalizedDrivePublicUrl ==
            IF part.drivePublicUrl # NoUrl THEN part.drivePublicUrl ELSE normalizedAudioUrl
    IN [part EXCEPT !.audioUrl = normalizedAudioUrl,
                    !.drivePublicUrl = normalizedDrivePublicUrl]

normalizeBooksForClient(bs) ==
    [q \in DOMAIN bs |-> IF bs[q] = NoPart THEN NoPart ELSE normalizePart(bs[q])]

\* sanitizeBooksForSupabase, for one normalized part
sanitizePart(part) ==
    IF part.audioBase64 # NoAudio
        /\ (part.driveFileId # NoFile \/ part.drivePublicUrl # NoUrl \/ part.audioUrl # NoUrl)
    THEN [part EXCEPT !.audioBase64 = NoAudio]
    ELSE part

sanitizeBooksForSupabase(bs) ==
    [q \in DOMAIN bs |->
        IF bs[q] = NoPart THEN NoPart ELSE sanitizePart(normalizePart(bs[q]))]

\* the outcomes of one remote put: a put that would change nothing always lands
PutOutcomes(row) ==
    IF saveFailures < MaxSaveFailures /\ row # remote THEN {"ok", "error"} ELSE {"ok"}

\* saveBooksToSupabase: upsert the sanitized catalog under the shared key; the
\* caller swallows a failure
saveBooksToSupabase(bs) ==
    \E put \in PutOutcomes(sanitizeBooksForSupabase(bs)) :
        /\ remote' = IF put = "ok" THEN sanitizeBooksForSupabase(bs) ELSE remote
        /\ saveFailures' = IF put = "ok" THEN saveFailures ELSE saveFailures + 1
        /\ UNCHANGED layerVars

\* the persistence effect without its two guards
saveBooksUnguarded(bs, isLoaded, loadFailed) == saveBooksToSupabase(bs)

\* the effect on [books, loaded, initialLoadFailed]: persist after every setBooks
saveBooksEffect(bs, isLoaded, loadFailed) ==
    IF isLoaded /\ ~(loadFailed /\ bs = EmptyLibrary)
    THEN saveBooksToSupabase(bs)
    ELSE UNCHANGED storeVars

\* setBooks(bs) followed by the persistence effect
setBooks(bs) ==
    /\ books' = bs
    /\ saveBooksEffect(bs, loaded, initialLoadFailed)

\* loadSharedLibrary: on mount, and from the Supabase check button (re-sync)
loadSharedLibrary ==
    /\ \/ ~loaded /\ UNCHANGED clicks
       \/ loaded /\ isAdmin /\ Click
    /\ \E result \in {"ok", "error"} :
        IF result = "ok"
        THEN /\ books' = normalizeBooksForClient(remote)
             /\ initialLoadFailed' = FALSE
             /\ saveBooksEffect(normalizeBooksForClient(remote), TRUE, FALSE)
        ELSE /\ books' = EmptyLibrary
             /\ initialLoadFailed' = TRUE
             /\ saveBooksEffect(EmptyLibrary, TRUE, TRUE)
    /\ loaded' = TRUE
    /\ UNCHANGED <<isAdmin, isDriveConnected, tokenVars, runs, repair, drive>>

\* ------------------------------------------------- generation orchestrator

\* makeId('gen'): a run id never issued before
FreshRun(r) == runs[r].pc = "idle" /\ \A s \in RunIds : s < r => runs[s].pc # "idle"

\* a finally block that leaves the entries of the segment in place
keepGenerationRefs(ids, partId) == ids

\* delete generationControllersRef.current[partId]; delete generationRunIdsRef.current[partId]
clearGenerationRefs(ids, partId) == [ids EXCEPT ![partId] = 0]

\* controller.abort() on the controller a run owns (0: no controller)
Abort(rs, owner) == IF owner = 0 THEN rs ELSE [rs EXCEPT ![owner].aborted = TRUE]

\* a run past its finally block: its timers are cleared, nothing reads it again
Finished == [IdleRun EXCEPT !.pc = "done"]

\* the outcomes of `await generateTtsAudio(...)`: the POST /api/tts request
\* resolves or rejects; the helper takes the text and the voice only, so an
\* abort of the controller does not decide which (a rejection after an abort
\* is reported by the catch handler as a cancellation or a timeout)
generateTtsAudio == {"ok", "error"}

\* the run generatePartAudio starts for the part: it closes over the part's
\* content and voice, its interval and its hard timeout are armed
StartedRun(partId) ==
    [IdleRun EXCEPT !.part = partId, !.pc = "tts", !.progress = StartProgress,
                    !.timer = TRUE, !.hardTimeout = TRUE,
                    !.text = books[partId].text, !.voice = books[partId].voice,
                    !.authorized = requireAdmin]

\* a token issue that installs the new controller over the outstanding one
\* without aborting it
IssueRunKeepingOutstanding(rs, partId, r) == [rs EXCEPT ![r] = StartedRun(partId)]

\* abort the outstanding controller of the part, then install run r
IssueRun(rs, partId, r) ==
    [Abort(rs, generationControllers[partId]) EXCEPT ![r] = StartedRun(partId)]

\* a guard that lets a run start without a Drive connection, as the handler
\* of src/App.tsx does (it falls back to inline bytes)
startsWithoutDrive(connected) == TRUE

\* `if (!isDriveConnected) { alert(...); return; }`: the run may start
startsWithDrive(connected) == connected

\* generatePartAudio up to its first await: guards, token issue, status write,
\* ticker and hard timeout; without a Drive connection it alerts and returns
generatePartAudio(partId) ==
    /\ isAdmin
    /\ Click
    /\ books[partId] # NoPart
    /\ ~books[partId].isGenerating          \* the button is rendered only then
    /\ IF startsWithDrive(isDriveConnected)
       THEN /\ \E r \in RunIds :
                /\ FreshRun(r)
                /\ runs' = IssueRun(runs, partId, r)
                /\ generationControllers' = [generationControllers EXCEPT ![partId] = r]
                /\ generationRunIds' = [generationRunIds EXCEPT ![partId] = r]
            /\ setBooks(updatePartByLocation(books, partId,
                    [isGenerating |-> TRUE, progress |-> StartProgress, error |-> NoError]))
       ELSE UNCHANGED <<books, storeVars, tokenVars, runs>>
    /\ UNCHANGED <<uiVars, repair, drive>>

\* an interval callback that does not compare the run token before it writes
TimerTickAnyToken(r) ==
    /\ runs[r].timer
    /\ runs[r].progress < StartProgress + TickStep * MaxTicks
    /\ LET progress == IF runs[r].progress + TickStep < TickCap
                       THEN runs[r].progress + TickStep ELSE TickCap
       IN /\ runs' = [runs EXCEPT ![r].progress = progress]
          /\ setBooks(updatePartByLocation(books, runs[r].part, [progress |-> progress]))
    /\ UNCHANGED <<uiVars, tokenVars, repair, drive, clicks>>

\* an interval callback that adds its step without the Math.min
TimerTickUncapped(r, limit) ==
    /\ runs[r].timer
    /\ IF generationRunIds[runs[r].part] # r
       THEN /\ runs' = [runs EXCEPT ![r].timer = FALSE]
            /\ UNCHANGED <<books, storeVars>>
       ELSE /\ runs[r].progress < limit
            /\ LET progress == runs[r].progress + TickStep
               IN /\ runs' = [runs EXCEPT ![r].progress = progress]
                  /\ setBooks(updatePartByLocation(books, runs[r].part, [progress |-> progress]))
    /\ UNCHANGED <<uiVars, tokenVars, repair, drive, clicks>>

\* one firing of the 450 ms interval of run r
TimerTickBelow(r, limit) ==
    /\ runs[r].timer
    /\ IF generationRunIds[runs[r].part] # r
       THEN /\ runs' = [runs EXCEPT ![r].timer = FALSE]
            /\ UNCHANGED <<books, storeVars>>
       ELSE /\ runs[r].progress < limit
            /\ LET progress == IF runs[r].progress + TickStep < TickCap
                               THEN runs[r].progress + TickStep ELSE TickCap
               IN /\ runs' = [runs EXCEPT ![r].progress = progress]
                  /\ setBooks(updatePartByLocation(books, runs[r].part, [progress |-> progress]))
    /\ UNCHANGED <<uiVars, tokenVars, repair, drive, clicks>>

\* the interval callback, followed for the first MaxTicks ticks of a run
TimerTick(r) == TimerTickBelow(r, StartProgress + TickStep * MaxTicks)

\* the GENERATION_TIMEOUT_MS timer of run r fires
HardTimeout(r) ==
    /\ runs[r].hardTimeout
    /\ runs' = [runs EXCEPT ![r].timedOut = TRUE, ![r].aborted = TRUE,
                            ![r].hardTimeout = FALSE]
    /\ UNCHANGED <<books, uiVars, tokenVars, repair, drive, storeVars, clicks>>

\* the finally block of run r
Finally(r) ==
    /\ runs' = [runs EXCEPT ![r] = Finished]
    /\ IF generationRunIds[runs[r].part] = r
       THEN /\ generationControllers' = clearGenerationRefs(generationControllers, runs[r].part)
            /\ generationRunIds' = clearGenerationRefs(generationRunIds, runs[r].part)
       ELSE UNCHANGED tokenVars

\* a resumed run that finds its token superseded returns through finally
Discard(r) ==
    /\ UNCHANGED <<books, storeVars>>
    /\ Finally(r)

\* the message the catch handler records
CatchMessage(run) ==
    IF run.aborted
    THEN IF run.timedOut THEN TimedOutMsg ELSE CanceledByAbort
    ELSE FailedMsg

\* a catch handler that records its message without comparing the run token
CatchAnyToken(r) ==
    /\ setBooks(updatePartByLocation(books, runs[r].part,
            [isGenerating |-> FALSE, progress |-> 0, error |-> CatchMessage(runs[r])]))
    /\ Finally(r)

\* the catch handler of run r followed by finally
Catch(r) ==
    IF generationRunIds[runs[r].part] # r
    THEN Discard(r)
    ELSE /\ setBooks(updatePartByLocation(books, runs[r].part,
                [isGenerating |-> FALSE, progress |-> 0, error |-> CatchMessage(runs[r])]))
         /\ Finally(r)

\* a success branch that leaves the progress at the upload checkpoint
CommitAtCheckpoint(r, fileId, publicUrl) ==
    /\ setBooks(updatePartByLocation(books, runs[r].part,
            [isGenerating |-> FALSE,
             audioBase64 |-> NoAudio, driveFileId |-> fileId,
             audioUrl |-> IF publicUrl # NoUrl THEN publicUrl ELSE buildDrivePublicUrl(fileId),
             drivePublicUrl |-> publicUrl, error |-> NoError]))
    /\ Finally(r)

\* the success branch after the upload: commit the playback reference
Commit(r, fileId, publicUrl) ==
    /\ setBooks(updatePartByLocation(books, runs[r].part,
            [isGenerating |-> FALSE, progress |-> DoneProgress,
             audioBase64 |-> NoAudio, driveFileId |-> fileId,
             audioUrl |-> IF publicUrl # NoUrl THEN publicUrl ELSE buildDrivePublicUrl(fileId),
             drivePublicUrl |-> publicUrl, error |-> NoError]))
    /\ Finally(r)

\* run r resumes from `await generateTtsAudio(...)`
TtsSettles(r) ==
    /\ runs[r].pc = "tts"
    /\ \E result \in (IF runs[r].authorized THEN generateTtsAudio ELSE {"error"}) :
        IF result = "ok"
        THEN IF generationRunIds[runs[r].part] # r
             THEN Discard(r)
             ELSE /\ runs' = [runs EXCEPT ![r].pc = "encode"]
                  /\ UNCHANGED <<books, storeVars, tokenVars>>
        ELSE Catch(r)
    /\ UNCHANGED <<uiVars, repair, drive, clicks>>

\* the resumption after the encoding without the comparison of the run token
EncodeSettlesAnyToken(r) ==
    /\ runs[r].pc = "encode"
    /\ \E result \in {"ok", "error"} :
        IF result = "ok"
        THEN /\ setBooks(updatePartByLocation(books, runs[r].part,
                             [progress |-> UploadProgress]))
             /\ runs' = [runs EXCEPT ![r].pc = "upload",
                                     ![r].uploads = runs[r].uploads + 1,
                                     ![r].authorized = requireAdmin]
             /\ UNCHANGED tokenVars
        ELSE Catch(r)
    /\ UNCHANGED <<uiVars, repair, drive, clicks>>

\* run r resumes from `await pcmBase64ToMp3Base64(...)`, writes the upload
\* checkpoint and issues the upload
EncodeSettles(r) ==
    /\ runs[r].pc = "encode"
    /\ \E result \in {"ok", "error"} :
        IF result = "ok"
        THEN IF generationRunIds[runs[r].part] # r
             THEN Discard(r)
             ELSE /\ setBooks(updatePartByLocation(books, runs[r].part,
                                  [progress |-> UploadProgress]))
                  /\ runs' = [runs EXCEPT ![r].pc = "upload",
                                          ![r].uploads = runs[r].uploads + 1,
                                          ![r].authorized = requireAdmin]
                  /\ UNCHANGED tokenVars
        ELSE Catch(r)
    /\ UNCHANGED <<uiVars, repair, drive, clicks>>

\* run r resumes from `await uploadAudioToDrive(...)`: on success the server has
\* created the object and answered { fileId, publicUrl }
\* POST /api/drive/upload: the file is created and made public-read; the file
\* is created and permissions.create fails, which the endpoint only logs; the
\* request fails
UploadResults == {"ok", "okNotPublic", "error"}

UploadSettles(r) ==
    /\ runs[r].pc = "upload"
    /\ \E result \in (IF runs[r].authorized THEN UploadResults ELSE {"error"}) :
        IF result \in {"ok", "okNotPublic"}
        THEN /\ drive' = Append(drive, [part |-> runs[r].part, text |-> runs[r].text,
                                        voice |-> runs[r].voice,
                                        public |-> (result = "ok")])
             /\ IF generationRunIds[runs[r].part] # r
                THEN Discard(r)
                ELSE Commit(r, Len(drive) + 1, buildDrivePublicUrl(Len(drive) + 1))
        ELSE /\ Catch(r)
             /\ UNCHANGED drive
    /\ UNCHANGED <<uiVars, repair, clicks>>

\* the Cancel generation button: cancelPartGeneration(part.id) without a location
cancelPartGeneration(partId) ==
    /\ isAdmin
    /\ Click
    /\ books[partId] # NoPart
    /\ books[partId].isGenerating           \* the button is rendered only then
    /\ runs' = Abort(runs, generationControllers[partId])
    /\ generationControllers' = clearGenerationRefs(generationControllers, partId)
    /\ generationRunIds' = clearGenerationRefs(generationRunIds, partId)
    /\ setBooks(updatePartByLocation(books, partId,
                    [isGenerating |-> FALSE, progress |-> 0, error |-> CanceledByUser]))
    /\ UNCHANGED <<uiVars, repair, drive>>

\* ------------------------------------------------------ editing the catalog

\* the part submitPart (edit mode) writes for the draft (text, voice)
EditedPart(part, text, voice) ==
    LET contentChanged == part.text # text \/ part.voice # voice
    IN [part EXCEPT !.text = text, !.voice = voice,
                    !.audioBase64 = IF contentChanged THEN NoAudio ELSE part.audioBase64,
                    !.audioUrl = IF contentChanged THEN NoUrl ELSE part.audioUrl,
                    !.driveFileId = IF contentChanged THEN NoFile ELSE part.driveFileId,
                    !.drivePublicUrl = IF contentChanged THEN NoUrl ELSE part.drivePublicUrl,
                    !.error = NoError]

\* submitPart in edit mode with the draft (text, voice)
submitPart(partId, text, voice) ==
    /\ isAdmin
    /\ books[partId] # NoPart
    /\ Click
    /\ setBooks([books EXCEPT ![partId] = EditedPart(books[partId], text, voice)])
    /\ UNCHANGED <<uiVars, tokenVars, runs, repair, drive>>

\* cancelGenerationsForPartIds: abort and forget the runs of the parts
cancelGenerationsForPartIds(partIds) ==
    /\ runs' = [r \in RunIds |->
                  IF \E q \in partIds : generationControllers[q] = r
                  THEN [runs[r] EXCEPT !.aborted = TRUE] ELSE runs[r]]
    /\ generationControllers' = [q \in Parts |-> IF q \in partIds THEN 0 ELSE generationControllers[q]]
    /\ generationRunIds' = [q \in Parts |-> IF q \in partIds THEN 0 ELSE generationRunIds[q]]

\* confirmDelete with deleteTarget = { type: 'part', id }
confirmDeletePart(partId) ==
    /\ isAdmin
    /\ Click
    /\ books[partId] # NoPart
    /\ runs' = Abort(runs, generationControllers[partId])
    /\ generationControllers' = clearGenerationRefs(generationControllers, partId)
    /\ generationRunIds' = clearGenerationRefs(generationRunIds, partId)
    /\ setBooks([books EXCEPT ![partId] = NoPart])
    /\ UNCHANGED <<uiVars, repair, drive>>

\* confirmDelete with deleteTarget = { type: 'chapter', id } (or the book)
confirmDeleteChapter ==
    /\ isAdmin
    /\ Click
    /\ books # EmptyLibrary
    /\ cancelGenerationsForPartIds({q \in Parts : books[q] # NoPart})
    /\ setBooks(EmptyLibrary)
    /\ UNCHANGED <<uiVars, repair, drive>>

\* ------------------------------------------------------ publish repair

\* part.driveFileId || parseDriveFileIdFromUrl(part.audioUrl) || parseDriveFileIdFromUrl(part.drivePublicUrl)
resolvedFileId(part) ==
    IF part.driveFileId # NoFile THEN part.driveFileId
    ELSE IF parseDriveFileIdFromUrl(part.audioUrl) # NoFile
         THEN parseDriveFileIdFromUrl(part.audioUrl)
         ELSE parseDriveFileIdFromUrl(part.drivePublicUrl)

\* the targets of a batch, in catalog order
RECURSIVE RepairTargets(_, _)
RepairTargets(bs, q) ==
    IF q > NumParts THEN <<>>
    ELSE IF bs[q] # NoPart /\ resolvedFileId(bs[q]) # NoFile
         THEN <<[partId |-> q, fileId |-> resolvedFileId(bs[q])]>> \o RepairTargets(bs, q + 1)
         ELSE RepairTargets(bs, q + 1)

\* repairedLinks.get(partId), NoUrl when absent
RepairedUrl(links, partId) ==
    IF \E l \in links : l.partId = partId
    THEN (CHOOSE l \in links : l.partId = partId).url
    ELSE NoUrl

\* the setBooks after the loop: the repaired parts get the public URL
ApplyRepairedLinks(bs, links) ==
    [q \in DOMAIN bs |->
        IF bs[q] = NoPart \/ RepairedUrl(links, q) = NoUrl THEN bs[q]
        ELSE [bs[q] EXCEPT
                !.driveFileId = IF bs[q].driveFileId # NoFile THEN bs[q].driveFileId
                                ELSE parseDriveFileIdFromUrl(RepairedUrl(links, q)),
                !.audioUrl = RepairedUrl(links, q),
                !.drivePublicUrl = RepairedUrl(links, q)]]

\* POST /api/drive/publish for an object: permissions.create succeeds; it fails
\* because the permission is already there, or for another reason, and the
\* endpoint answers with the public URL all the same; the request fails
PublishResults(object, authorized) ==
    IF ~authorized THEN {"Admin authentication required."}
    ELSE {"granted", "denied", "Google Drive is not connected."}
            \cup (IF object.public THEN {"alreadyPublic"} ELSE {})

\* the endpoint answered 200 with { fileId, publicUrl }
Published(result) == result \in {"granted", "alreadyPublic", "denied"}

\* handleRepairPublicAudioLinks up to its first publish call
RepairStart ==
    /\ isAdmin
    /\ isDriveConnected
    /\ repair.pc = "idle"
    /\ RepairTargets(books, 1) # <<>>
    /\ Click
    /\ repair' = [IdleRepair EXCEPT !.pc = "publishing", !.targets = RepairTargets(books, 1),
                                    !.authorized = requireAdmin]
    /\ UNCHANGED <<books, uiVars, tokenVars, runs, drive, storeVars>>

\* the batch resumes from `await publishDriveFile(target.fileId)`; after the
\* last target it applies the repaired links and ends
RepairPublishSettles ==
    /\ repair.pc = "publishing"
    /\ \E result \in PublishResults(drive[repair.targets[repair.next].fileId],
                                     repair.authorized) :
        LET target == repair.targets[repair.next]
            links == IF Published(result)
                     THEN repair.repairedLinks \cup
                            {[partId |-> target.partId, url |-> buildDrivePublicUrl(target.fileId)]}
                     ELSE repair.repairedLinks
            failed == IF Published(result) THEN repair.failed ELSE repair.failed + 1
            firstFailureMessage ==
                IF ~Published(result) /\ repair.firstFailureMessage = ""
                THEN result ELSE repair.firstFailureMessage
            grantFailed == IF result \in {"granted", "alreadyPublic"}
                           THEN repair.grantFailed ELSE repair.grantFailed + 1
        IN /\ drive' = IF result = "granted"
                       THEN [drive EXCEPT ![target.fileId].public = TRUE]
                       ELSE drive
           /\ IF repair.next < Len(repair.targets)
              THEN /\ repair' = [repair EXCEPT !.next = repair.next + 1,
                                               !.repairedLinks = links, !.failed = failed,
                                               !.firstFailureMessage = firstFailureMessage,
                                               !.grantFailed = grantFailed,
                                               !.authorized = requireAdmin]
                   /\ UNCHANGED <<books, storeVars>>
              ELSE /\ repair' = [IdleRepair EXCEPT !.report =
                                    [ok |-> Cardinality(links), total |-> Len(repair.targets),
                                     failed |-> failed,
                                     firstFailureMessage |-> firstFailureMessage,
                                     grantFailed |-> grantFailed]]
                   /\ IF links # {}
                      THEN setBooks(ApplyRepairedLinks(books, links))
                      ELSE UNCHANGED <<books, storeVars>>
    /\ UNCHANGED <<uiVars, tokenVars, runs, clicks>>

\* ------------------------------------------------------ admin and Drive session

handleAdminLoginSubmit ==
    /\ ~isAdmin
    /\ Click
    /\ isAdmin' = TRUE
    /\ session' = "valid"
    /\ isDriveConnected' \in BOOLEAN
    /\ UNCHANGED <<books, loaded, initialLoadFailed, tokenVars, runs, repair,
                   drive, keptVars>>

handleAdminLogout ==
    /\ isAdmin
    /\ Click
    /\ isAdmin' = FALSE
    /\ session' = "none"
    /\ isDriveConnected' = FALSE
    /\ UNCHANGED <<books, loaded, initialLoadFailed, tokenVars, runs, repair,
                   drive, keptVars>>

\* the OAUTH_AUTH_SUCCESS message of the consent popup
DriveConnected ==
    /\ isAdmin
    /\ Click
    /\ ~isDriveConnected
    /\ isDriveConnected' = TRUE
    /\ UNCHANGED <<books, loaded, initialLoadFailed, isAdmin, tokenVars, runs,
                   repair, drive, storeVars>>

handleDisconnectDrive ==
    /\ isAdmin
    /\ Click
    /\ isDriveConnected
    /\ isDriveConnected' = FALSE
    /\ UNCHANGED <<books, loaded, initialLoadFailed, isAdmin, tokenVars, runs,
                   repair, drive, storeVars>>

\* ------------------------------------------------------ specification

Next ==
    \/ loadSharedLibrary
    \/ \E p \in Parts : generatePartAudio(p)
    \/ \E r \in RunIds : TimerTick(r)
    \/ \E r \in RunIds : HardTimeout(r)
    \/ \E r \in RunIds : TtsSettles(r)
    \/ \E r \in RunIds : EncodeSettles(r)
    \/ \E r \in RunIds : UploadSettles(r)
    \/ \E p \in Parts : cancelPartGeneration(p)
    \/ \E p \in Parts, t \in Texts, v \in Voices : submitPart(p, t, v)
    \/ \E p \in Parts : confirmDeletePart(p)
    \/ confirmDeleteChapter
    \/ RepairStart
    \/ RepairPublishSettles
    \/ handleAdminLoginSubmit
    \/ handleAdminLogout
    \/ DriveConnected
    \/ handleDisconnectDrive

Spec == Init /\ [][Next]_vars

\* the token's exp has passed (ADMIN_SESSION_TTL_MS after the login): the
\* server no longer accepts the cookie, the client's isAdmin is not told
SessionExpires ==
    /\ session = "valid"
    /\ session' = "expired"
    /\ UNCHANGED <<books, uiVars, tokenVars, runs, repair, drive, clicks, keptVars>>

\* the interval callback, followed until the value it writes stops changing
TimerTickToCap(r) == TimerTickBelow(r, TickCap)

\* the segments whose runs are followed tick by tick
TickedParts == 1..MaxTicked

\* the generation orchestrator with its ticker followed up to the cap
TickerNext ==
    \/ loadSharedLibrary
    \/ handleAdminLoginSubmit
    \/ DriveConnected
    \/ \E p \in TickedParts : generatePartAudio(p)
    \/ \E r \in RunIds : TimerTickToCap(r)
    \/ \E r \in RunIds : HardTimeout(r)
    \/ \E r \in RunIds : TtsSettles(r)
    \/ \E r \in RunIds : EncodeSettles(r)
    \/ \E r \in RunIds : UploadSettles(r)
    \/ \E p \in TickedParts : cancelPartGeneration(p)

TickerSpec == Init /\ [][TickerNext]_vars

\* the App in sessions that outlast the admin token
SessionNext == Next \/ SessionExpires

SessionSpec == Init /\ [][SessionNext]_vars

\* ------------------------------------------------------ the storage layer
\* loadBooks and saveBooks followed step by step, over the row under the
\* shared key (remote), the row under the legacy device id, the IndexedDB
\* store and the requests in flight.  Two releases of the storage service are
\* in the repository: src/unnamed/part_001 keeps the IndexedDB cache
\* (config.localCache), src/services/storageService.ts does not.

\* a catalog whose only part is `part`
OnePart(part) == [p \in Parts |-> IF p = 1 THEN part ELSE NoPart]

PlainCatalog == OnePart(NewPart(1))
InlineCatalog == OnePart([NewPart(1) EXCEPT !.audioBase64 = InlineMp3, !.progress = DoneProgress])
DriveCatalog == OnePart([NewPart(1) EXCEPT !.driveFileId = 1, !.progress = DoneProgress])
BothCatalog == OnePart(LegacyPart(1))
\* what an earlier session left in the IndexedDB store
CachedCatalog == OnePart([NewPart(1) EXCEPT !.voice = "Kore"])

\* the catalogs passed to saveBooks
SaveArgs == {EmptyLibrary, PlainCatalog, InlineCatalog, DriveCatalog, BothCatalog}

\* the builds and stores a session can start in
StorageInit ==
    /\ AppInit
    /\ calls = [c \in Calls |-> IdleCall]
    /\ net = {}
    /\ cache \in {Absent, CachedCatalog}
    /\ \E configured, localCache \in BOOLEAN, legacyDeviceId \in {"none", "same", "other"} :
        /\ config = [configured |-> configured, localCache |-> localCache,
                     legacyDeviceId |-> legacyDeviceId]
        /\ ~configured => legacyDeviceId = "none"
    /\ remote \in IF config.configured
                  THEN {Absent, EmptyLibrary, PlainCatalog, BothCatalog}
                  ELSE {Absent}
    /\ legacyRow \in IF config.legacyDeviceId = "other"
                     THEN {Absent, DriveCatalog, BothCatalog}
                     ELSE {Absent}

\* makeId-like allocation: the next call uses the lowest unused record
FreeCall(c) == calls[c].pc = "idle" /\ \A d \in Calls : d < c => calls[d].pc # "idle"

\* the call is between its start and its return
Pending(c) == calls[c].pc \notin {"idle", "done"}

\* the outcomes of one request wrapped in withTimeout: a response without
\* error; the timer's rejection ("... timed out after Nms"); the client's
\* rejection ("Failed to fetch"); a response whose error field reports a
\* data or validation failure; a response whose error field reports the
\* failed fetch ("TypeError: Failed to fetch")
RequestOutcomes == {"ok", "timeout", "network", "storeError", "fetchErrorResponse"}

\* the task awaited by withRetry throws: withTimeout rejected
Rejects(outcome) == outcome \in {"timeout", "network"}

\* isRetryableSupabaseError: the message matches
\* /timed out|Failed to fetch|NetworkError|network request failed/
isRetryableSupabaseError(outcome) == outcome \in {"timeout", "network", "fetchErrorResponse"}

\* withRetry's catch: lastError = error
CaughtFirst(lastError, error) == IF lastError = NoErr THEN error ELSE lastError

Caught(lastError, error) == error

\* a loop that goes round again after every caught retryable error
RetriesAlways(attempt, retries, outcome) ==
    Rejects(outcome) /\ isRetryableSupabaseError(outcome)

\* withRetry: another attempt follows a caught retryable error before the
\* last attempt; a response is returned to the caller whatever it carries
RetriesAgain(attempt, retries, outcome) ==
    Rejects(outcome) /\ isRetryableSupabaseError(outcome) /\ attempt < retries

\* one failed attempt of a store call: withRetry catches a rejection and
\* either goes round again or throws lastError; the caller throws a new Error
\* for a response carrying { error }.  thrown stays NoErr while the call goes on
withRetry(call, outcome, retries) ==
    LET error == [kind |-> outcome, attempt |-> call.attempt]
        lastError == Caught(call.lastError, error)
    IN IF ~Rejects(outcome) THEN [call EXCEPT !.thrown = error]
       ELSE IF RetriesAgain(call.attempt, retries, outcome)
            THEN [call EXCEPT !.lastError = lastError, !.attempt = call.attempt + 1]
            ELSE [call EXCEPT !.lastError = lastError, !.thrown = lastError]

\* the outcomes of one IndexedDB transaction
CacheOutcomes == {"ok", "error"}

\* a row whose `books` payload is not an array (null, an object, a string)
NotAnArray == [p \in Parts |-> [id |-> -1]]

\* a row whose `books` payload is an array with an element that is not a
\* book: it has no `chapters` to map over
BrokenArray == [p \in Parts |-> [id |-> -2]]

\* normalizeBooksForClient(data.books) throws a TypeError
normalizeThrows(row) == row = BrokenArray

\* fetchBooksByKey for a row: null when there is none, [] when the payload
\* is not an array, else the normalized books (no value where
\* normalizeBooksForClient throws: the callers test normalizeThrows first)
fetchBooksByKey(row) ==
    IF row = Absent THEN Absent
    ELSE IF row = NotAnArray THEN EmptyLibrary
    ELSE IF normalizeThrows(row) THEN Absent
    ELSE normalizeBooksForClient(row)

\* fetchBooksByKey after a response without error: the TypeError of
\* normalizeBooksForClient leaves it uncaught
NormalizeFailed(call) == [call EXCEPT !.thrown = [kind |-> "typeError", attempt |-> call.attempt]]

\* sharedBooks && sharedBooks.length > 0
NonEmpty(bs) == bs # Absent /\ bs # EmptyLibrary

\* loadBooksFromIndexedDb: the stored array, [] when nothing is stored
loadBooksFromIndexedDb == IF cache = Absent THEN EmptyLibrary ELSE cache

\* loadBooks after loadBooksFromSupabase returned `value`
Returned(call, value) ==
    IF config.localCache
    THEN [call EXCEPT !.remoteBooks = value, !.pc = "cachePut"]
    ELSE [call EXCEPT !.remoteBooks = value, !.ret = value, !.pc = "done"]

\* loadBooks after loadBooksFromSupabase threw
Threw(call) ==
    IF config.localCache
    THEN [call EXCEPT !.remoteFailed = TRUE, !.pc = "cacheGet"]
    ELSE [call EXCEPT !.remoteFailed = TRUE, !.raised = TRUE, !.pc = "done"]

\* one attempt of the upsert of saveBooksToSupabase: a response applies the
\* sanitized catalog; a timed-out attempt is not aborted and stays in flight
Upsert(bs, outcome) ==
    /\ remote' = IF outcome = "ok" THEN sanitizeBooksForSupabase(bs) ELSE remote
    /\ net' = IF outcome = "timeout" THEN net \cup {sanitizeBooksForSupabase(bs)} ELSE net

\* loadBooks() up to its first await
StartLoad(c) ==
    /\ FreeCall(c)
    /\ \A d \in Calls : ~Pending(d)
    /\ calls' = [calls EXCEPT ![c] =
          IF config.configured
          THEN [IdleCall EXCEPT !.op = "load", !.pc = "getShared", !.attempt = 1,
                                !.remoteCalled = TRUE]
          ELSE IF config.localCache
               THEN [IdleCall EXCEPT !.op = "load", !.pc = "cacheGet"]
               ELSE [IdleCall EXCEPT !.op = "load", !.pc = "done", !.ret = EmptyLibrary]]
    /\ UNCHANGED <<appVars, remote, config, legacyRow, cache, net>>

\* loadBooksFromSupabase resumes from fetchBooksByKey(sharedLibraryKey)
GetSharedSettles(c) ==
    /\ calls[c].pc = "getShared"
    /\ \E outcome \in RequestOutcomes :
        LET call == calls[c]
            sharedBooks == fetchBooksByKey(remote)
            got == [call EXCEPT !.sharedBooks = sharedBooks, !.lastError = NoErr]
        IN calls' = [calls EXCEPT ![c] =
              IF outcome = "ok" /\ normalizeThrows(remote) THEN Threw(NormalizeFailed(call))
              ELSE IF outcome = "ok"
              THEN IF NonEmpty(sharedBooks) THEN Returned(got, sharedBooks)
                   ELSE IF config.legacyDeviceId = "other"
                        THEN [got EXCEPT !.pc = "getLegacy", !.attempt = 1,
                                         !.legacyLookup = TRUE]
                        ELSE Returned(got, IF sharedBooks # Absent THEN sharedBooks
                                           ELSE EmptyLibrary)
              ELSE IF withRetry(call, outcome, SUPABASE_LOAD_RETRIES).thrown = NoErr
                   THEN withRetry(call, outcome, SUPABASE_LOAD_RETRIES)
                   ELSE Threw(withRetry(call, outcome, SUPABASE_LOAD_RETRIES))]
    /\ UNCHANGED <<appVars, remote, config, legacyRow, cache, net>>

\* loadBooksFromSupabase resumes from fetchBooksByKey(legacyDeviceId)
GetLegacySettles(c) ==
    /\ calls[c].pc = "getLegacy"
    /\ \E outcome \in RequestOutcomes :
        LET call == calls[c]
            legacyBooks == fetchBooksByKey(legacyRow)
            got == [call EXCEPT !.lastError = NoErr]
        IN calls' = [calls EXCEPT ![c] =
              IF outcome = "ok" /\ normalizeThrows(legacyRow) THEN Threw(NormalizeFailed(call))
              ELSE IF outcome = "ok"
              THEN IF NonEmpty(legacyBooks)
                   THEN [got EXCEPT !.legacyBooks = legacyBooks, !.pc = "migrate",
                                    !.attempt = 1, !.wrote = TRUE]
                   ELSE Returned(got, IF call.sharedBooks # Absent THEN call.sharedBooks
                                      ELSE EmptyLibrary)
              ELSE IF withRetry(call, outcome, SUPABASE_LOAD_RETRIES).thrown = NoErr
                   THEN withRetry(call, outcome, SUPABASE_LOAD_RETRIES)
                   ELSE Threw(withRetry(call, outcome, SUPABASE_LOAD_RETRIES))]
    /\ UNCHANGED <<appVars, remote, config, legacyRow, cache, net>>

\* loadBooksFromSupabase resumes from `await saveBooksToSupabase(legacyBooks)`
MigrateSettles(c) ==
    /\ calls[c].pc = "migrate"
    /\ \E outcome \in RequestOutcomes :
        LET call == calls[c]
        IN /\ Upsert(call.legacyBooks, outcome)
           /\ calls' = [calls EXCEPT ![c] =
                 IF outcome = "ok"
                 THEN Returned([call EXCEPT !.lastError = NoErr], call.legacyBooks)
                 ELSE IF withRetry(call, outcome, SUPABASE_SAVE_RETRIES).thrown = NoErr
                      THEN withRetry(call, outcome, SUPABASE_SAVE_RETRIES)
                      ELSE Threw(withRetry(call, outcome, SUPABASE_SAVE_RETRIES))]
    /\ UNCHANGED <<appVars, config, legacyRow, cache>>

\* saveBooks(arg) up to its first await
StartSave(c, arg) ==
    /\ FreeCall(c)
    /\ \A d \in Calls : Pending(d) => calls[d].op = "save"
    /\ calls' = [calls EXCEPT ![c] =
          IF config.localCache
          THEN [IdleCall EXCEPT !.op = "save", !.arg = arg, !.pc = "cachePut"]
          ELSE IF config.configured
               THEN [IdleCall EXCEPT !.op = "save", !.arg = arg, !.pc = "put",
                                     !.attempt = 1, !.remoteCalled = TRUE,
                                     !.wrote = TRUE, !.cachedAtPut = (cache = arg)]
               ELSE [IdleCall EXCEPT !.op = "save", !.arg = arg, !.pc = "done"]]
    /\ UNCHANGED <<appVars, remote, config, legacyRow, cache, net>>

\* a call resumes from `await saveBooksToIndexedDb(...)`: loadBooks stores the
\* remote result, saveBooks stores its argument before the remote put
CachePutSettles(c) ==
    /\ calls[c].pc = "cachePut"
    /\ \E outcome \in CacheOutcomes :
        LET call == calls[c]
            value == IF call.op = "load" THEN call.remoteBooks ELSE call.arg
        IN /\ cache' = IF outcome = "ok" THEN value ELSE cache
           /\ calls' = [calls EXCEPT ![c] =
                 IF call.op = "load"
                 THEN IF outcome = "ok"
                      THEN [call EXCEPT !.ret = value, !.pc = "done"]
                      ELSE [call EXCEPT !.pc = "cacheGet"]
                 ELSE IF outcome = "ok"
                      THEN IF config.configured
                           THEN [call EXCEPT !.pc = "put", !.attempt = 1,
                                             !.remoteCalled = TRUE, !.wrote = TRUE,
                                             !.cachedAtPut = TRUE]
                           ELSE [call EXCEPT !.pc = "done"]
                      ELSE [call EXCEPT !.raised = TRUE, !.pc = "done"]]
    /\ UNCHANGED <<appVars, remote, config, legacyRow, net>>

\* loadBooks resumes from `return loadBooksFromIndexedDb()`
CacheGetSettles(c) ==
    /\ calls[c].pc = "cacheGet"
    /\ \E outcome \in CacheOutcomes :
        calls' = [calls EXCEPT ![c] =
            IF outcome = "ok"
            THEN [calls[c] EXCEPT !.ret = loadBooksFromIndexedDb, !.pc = "done"]
            ELSE [calls[c] EXCEPT !.raised = TRUE, !.pc = "done"]]
    /\ UNCHANGED <<appVars, remote, config, legacyRow, cache, net>>

\* saveBooks resumes from `await saveBooksToSupabase(books)`: part_001 catches
\* and logs a failure, storageService.ts lets it reject the call
PutSettles(c) ==
    /\ calls[c].pc = "put"
    /\ \E outcome \in RequestOutcomes :
        LET call == calls[c]
        IN /\ Upsert(call.arg, outcome)
           /\ calls' = [calls EXCEPT ![c] =
                 IF outcome = "ok" THEN [call EXCEPT !.pc = "done", !.lastError = NoErr]
                 ELSE IF withRetry(call, outcome, SUPABASE_SAVE_RETRIES).thrown = NoErr
                      THEN withRetry(call, outcome, SUPABASE_SAVE_RETRIES)
                      ELSE [withRetry(call, outcome, SUPABASE_SAVE_RETRIES)
                               EXCEPT !.remoteFailed = TRUE, !.pc = "done",
                                      !.raised = ~config.localCache]]
    /\ UNCHANGED <<appVars, config, legacyRow, cache>>

\* the store applies an upsert whose attempt had timed out
StrayUpsertLands ==
    /\ \E sent \in net :
        /\ remote' = sent
        /\ net' = net \ {sent}
    /\ UNCHANGED <<appVars, config, legacyRow, cache, calls>>

StorageNext ==
    \/ \E c \in Calls : StartLoad(c)
    \/ \E c \in Calls : GetSharedSettles(c)
    \/ \E c \in Calls : GetLegacySettles(c)
    \/ \E c \in Calls : MigrateSettles(c)
    \/ \E c \in Calls, arg \in SaveArgs : StartSave(c, arg)
    \/ \E c \in Calls : CachePutSettles(c)
    \/ \E c \in Calls : CacheGetSettles(c)
    \/ \E c \in Calls : PutSettles(c)
    \/ StrayUpsertLands

StorageSpec == StorageInit /\ [][StorageNext]_vars

\* every request wrapped in withTimeout settles (its timer fires at the
\* latest) and every sleep and IndexedDB transaction completes
StorageFairness ==
    \A c \in Calls :
        /\ WF_vars(GetSharedSettles(c))
        /\ WF_vars(GetLegacySettles(c))
        /\ WF_vars(MigrateSettles(c))
        /\ WF_vars(PutSettles(c))
        /\ WF_vars(CachePutSettles(c))
        /\ WF_vars(CacheGetSettles(c))

\* one loadBooks or saveBooks call followed to its end
RetryNext ==
    \/ StartLoad(1)
    \/ \E arg \in SaveArgs : StartSave(1, arg)
    \/ \E c \in Calls : GetSharedSettles(c)
    \/ \E c \in Calls : GetLegacySettles(c)
    \/ \E c \in Calls : MigrateSettles(c)
    \/ \E c \in Calls : CachePutSettles(c)
    \/ \E c \in Calls : CacheGetSettles(c)
    \/ \E c \in Calls : PutSettles(c)
    \/ StrayUpsertLands

RetrySpec == StorageInit /\ [][RetryNext]_vars /\ StorageFairness

\* the builds and stores of StorageInit, and rows that no release of the
\* App wrote
PayloadInit ==
    /\ AppInit
    /\ calls = [c \in Calls |-> IdleCall]
    /\ net = {}
    /\ cache \in {Absent, CachedCatalog}
    /\ \E localCache \in BOOLEAN, legacyDeviceId \in {"none", "same", "other"} :
        config = [configured |-> TRUE, localCache |-> localCache,
                  legacyDeviceId |-> legacyDeviceId]
    /\ remote \in {Absent, EmptyLibrary, PlainCatalog, NotAnArray, BrokenArray}
    /\ legacyRow \in IF config.legacyDeviceId = "other"
                     THEN {Absent, EmptyLibrary, DriveCatalog, NotAnArray, BrokenArray}
                     ELSE {Absent}

\* one loadBooks or saveBooks call over such rows
PayloadSpec == PayloadInit /\ [][RetryNext]_vars

\* the upsert of a saveBooks issued by another session reaches the store
OtherSessionSaves ==
    /\ config.configured
    /\ \E arg \in SaveArgs : remote' = sanitizeBooksForSupabase(arg)
    /\ remote' # remote
    /\ UNCHANGED <<appVars, config, legacyRow, cache, calls, net>>

\* one loadBooks or saveBooks call of this session while other sessions save
SharedStoreNext == RetryNext \/ OtherSessionSaves

SharedStoreSpec == StorageInit /\ [][SharedStoreNext]_vars

\* ---------------------------------------------------------- withTimeout
\* The promises withTimeout returns to the attempts of one withRetry loop.
\* The wrapped request of an attempt that timed out is not aborted: its
\* outcome may arrive while a later attempt is under way.

allButTimeouts == <<books, uiVars, tokenVars, runs, repair, drive, clicks, saveFailures,
                    remote, config, legacyRow, cache, calls, net, encoder, session>>

\* the store calls that are retried, with their number of attempts
TimedOps == {"load", "save"}
RetriesOf(op) == IF op = "load" THEN SUPABASE_LOAD_RETRIES ELSE SUPABASE_SAVE_RETRIES

\* how the wrapped request settles: Promise.resolve(promiseLike) is fulfilled
\* with a response (with or without an error field) or rejected by the client
WrappedOutcomes == RequestOutcomes \ {"timeout"}

\* a deferred whose later resolve or reject replaces the earlier outcome
SettleAgain(promise, outcome) == outcome

\* resolve(value) / reject(error) of `new Promise`: only the first takes effect
Settle(promise, outcome) == IF promise = "pending" THEN outcome ELSE promise

\* window.clearTimeout(timer)
clearTimeout(timer) == IF timer = "armed" THEN "cleared" ELSE timer

\* withRetry invokes its task for attempt a: the first attempt of a load or
\* of a save, or the next attempt after one whose promise was rejected with
\* a retryable error; withTimeout arms the timer and subscribes to the request
withTimeout(a) ==
    /\ timeouts.at[a] = IdleTimeout
    /\ \E op \in TimedOps :
        /\ IF a = 1 THEN timeouts.op = "none" ELSE timeouts.op = op
        /\ a <= RetriesOf(op)
        /\ a > 1 => /\ Rejects(timeouts.at[a - 1].promise)
                    /\ isRetryableSupabaseError(timeouts.at[a - 1].promise)
        /\ timeouts' = [op |-> op,
                        at |-> [timeouts.at EXCEPT ![a] =
                                  [call |-> "pending", timer |-> "armed",
                                   promise |-> "pending", settled |-> 0]]]
    /\ UNCHANGED allButTimeouts

\* the wrapped request of attempt a settles: the then or the catch callback
\* clears the timer and resolves or rejects the promise
WrappedSettles(a) ==
    /\ timeouts.at[a].call = "pending"
    /\ \E outcome \in WrappedOutcomes :
        LET t == timeouts.at[a]
        IN timeouts' = [timeouts EXCEPT !.at[a] =
              [call |-> outcome,
               timer |-> clearTimeout(t.timer),
               promise |-> Settle(t.promise, outcome),
               settled |-> IF Settle(t.promise, outcome) # t.promise
                           THEN t.settled + 1 ELSE t.settled]]
    /\ UNCHANGED allButTimeouts

\* the timer of attempt a fires: reject(new Error(label + ' timed out after ...'))
TimerFires(a) ==
    /\ timeouts.at[a].timer = "armed"
    /\ LET t == timeouts.at[a]
       IN timeouts' = [timeouts EXCEPT !.at[a] =
             [t EXCEPT !.timer = "fired",
                       !.promise = Settle(t.promise, "timeout"),
                       !.settled = IF Settle(t.promise, "timeout") # t.promise
                                   THEN t.settled + 1 ELSE t.settled]]
    /\ UNCHANGED allButTimeouts

TimeoutNext ==
    \/ \E a \in 1..SUPABASE_LOAD_RETRIES : withTimeout(a)
    \/ \E a \in 1..SUPABASE_LOAD_RETRIES : WrappedSettles(a)
    \/ \E a \in 1..SUPABASE_LOAD_RETRIES : TimerFires(a)

\* a timer that is armed fires unless it is cleared; a request is not
\* required ever to settle
TimeoutSpec ==
    Init /\ [][TimeoutNext]_vars /\ \A a \in 1..SUPABASE_LOAD_RETRIES : WF_vars(TimerFires(a))

\* ------------------------------------------------------ the MP3 encoder
\* pcmToMp3 followed block by block.  A sample is represented by its position
\* in the input plus one, so that every sample is distinct and non-zero.

restVars == <<books, uiVars, tokenVars, runs, repair, drive, clicks, saveFailures,
              remote, config, legacyRow, cache, calls, net, session, timeouts>>

\* the byte lengths passed: whole blocks of 16-bit samples and a tail
PcmByteLengths ==
    {2 * sampleBlockSize * full + tail : full \in 0..MaxBlocks, tail \in 0..MaxTail}

\* the channel counts passed
ChannelCounts == 0..3

\* samples[i] of `new Int16Array(pcmData.buffer)`, i counted from 0
Sample(i) == i + 1

\* a subarray that stops one sample short of the block's end
SubarrayShort(i, n) ==
    LET last == IF i + sampleBlockSize < n THEN i + sampleBlockSize ELSE n
    IN [k \in 1..(last - i - 1) |-> Sample(i + k - 1)]

\* samples.subarray(i, i + sampleBlockSize) of an array of n samples
Subarray(i, n) ==
    LET last == IF i + sampleBlockSize < n THEN i + sampleBlockSize ELSE n
    IN [k \in 1..(last - i) |-> Sample(i + k - 1)]

\* new Int16Array(length): ToIndex truncates a fractional length; zero-filled
Int16Array(twiceLength) == [m \in 1..(twiceLength \div 2) |-> 0]

\* array[index] read from a typed array: undefined out of bounds, stored as 0
Get(array, index) == IF index + 1 \in DOMAIN array THEN array[index + 1] ELSE 0

\* for (let j = 0; j < sampleChunk.length; j += 2) { left[j / 2] = sampleChunk[j]; ... }
\* every index j / 2 is written once; a write beyond the array's length is
\* ignored, so the array ends with the values written inside its bounds
Deinterleave(sampleChunk, array, offset) ==
    [m \in DOMAIN array |->
        IF 2 * (m - 1) < Len(sampleChunk)
        THEN Get(sampleChunk, 2 * (m - 1) + offset) ELSE 0]

\* the bytes the encoder returns from its call number `call` (0: flush)
Frame(call, length) == [k \in 1..length |-> <<call, k>>]

\* if (mp3buf.length > 0) mp3Data.push(new Int8Array(mp3buf))
Pushed(mp3Data, mp3buf) == IF Len(mp3buf) > 0 THEN Append(mp3Data, mp3buf) ELSE mp3Data

\* mp3Data.reduce((acc, curr) => acc + curr.length, 0), over the first n chunks
RECURSIVE LengthOfFirst(_, _)
LengthOfFirst(mp3Data, n) ==
    IF n = 0 THEN 0 ELSE LengthOfFirst(mp3Data, n - 1) + Len(mp3Data[n])

\* the result array: every chunk set at the offset the chunks before it end at
Combine(mp3Data) ==
    [m \in 1..LengthOfFirst(mp3Data, Len(mp3Data)) |->
        LET chunk == CHOOSE k \in 1..Len(mp3Data) :
                        /\ LengthOfFirst(mp3Data, k - 1) < m
                        /\ m <= LengthOfFirst(mp3Data, k)
        IN mp3Data[chunk][m - LengthOfFirst(mp3Data, chunk - 1)]]

\* pcmToMp3(pcmData, sampleRate, numChannels) up to its loop: the Int16Array
\* view over a buffer of odd length throws RangeError
pcmToMp3(byteLength, numChannels) ==
    /\ encoder.pc = "idle"
    /\ encoder' =
          IF byteLength % 2 # 0
          THEN [IdleEncoder EXCEPT !.pc = "done", !.byteLength = byteLength,
                                   !.numChannels = numChannels, !.status = "RangeError"]
          ELSE [IdleEncoder EXCEPT !.pc = "loop", !.byteLength = byteLength,
                                   !.numChannels = numChannels]
    /\ UNCHANGED restVars

\* one turn of the loop: the block goes to encodeBuffer whole when
\* numChannels === 1, split into left and right otherwise
EncodeBlock ==
    /\ encoder.pc = "loop"
    /\ encoder.i < encoder.byteLength \div 2
    /\ \E length \in 0..MaxFrame :
        LET sampleChunk == Subarray(encoder.i, encoder.byteLength \div 2)
            left == Deinterleave(sampleChunk, Int16Array(Len(sampleChunk)), 0)
            right == Deinterleave(sampleChunk, Int16Array(Len(sampleChunk)), 1)
            mp3buf == Frame(encoder.blocks + 1, length)
            encoded == [encoder EXCEPT !.i = encoder.i + sampleBlockSize,
                                       !.blocks = encoder.blocks + 1,
                                       !.outputs = Append(encoder.outputs, mp3buf),
                                       !.mp3Data = Pushed(encoder.mp3Data, mp3buf)]
        IN encoder' =
            IF encoder.numChannels = 1
            THEN [encoded EXCEPT !.mono = sampleChunk, !.left = <<>>, !.right = <<>>,
                                 !.fed = encoder.fed \o sampleChunk]
            ELSE [encoded EXCEPT !.mono = <<>>, !.left = left, !.right = right]
    /\ UNCHANGED restVars

\* mp3encoder.flush() and the concatenation: the call returns the MP3 bytes
EncoderFlush ==
    /\ encoder.pc = "loop"
    /\ encoder.i >= encoder.byteLength \div 2
    /\ \E length \in 0..MaxFrame :
        LET mp3buf == Frame(0, length)
            mp3Data == Pushed(encoder.mp3Data, mp3buf)
        IN encoder' = [encoder EXCEPT !.pc = "done", !.status = "ok",
                                      !.flushes = Append(encoder.flushes, mp3buf),
                                      !.mp3Data = mp3Data,
                                      !.result = Combine(mp3Data)]
    /\ UNCHANGED restVars

EncoderNext ==
    \/ \E byteLength \in PcmByteLengths, numChannels \in ChannelCounts :
          pcmToMp3(byteLength, numChannels)
    \/ EncodeBlock
    \/ EncoderFlush

EncoderSpec == Init /\ [][EncoderNext]_vars

\* ------------------------------------------------------ properties

\* the part exists in the in-memory catalog
Present(p) == books[p] # NoPart

\* the playback reference of a part, in all four representations
Refs(part) == <<part.audioBase64, part.driveFileId, part.audioUrl, part.drivePublicUrl>>
NoRefs == <<NoAudio, NoFile, NoUrl, NoUrl>>

\* some run of the session is at work for the part
HasActiveRun(p) == \E r \in RunIds : Active(r) /\ runs[r].part = p

\* C1: no part is marked generating while no run of the session is at work for
\* it: after every exit of a run (success, failure, cancellation, timeout) the
\* isGenerating flag is false unless a newer run is active.
C1_NoDanglingGenerating ==
    \A p \in Parts : Present(p) /\ books[p].isGenerating => HasActiveRun(p)

\* C2: a run that no longer holds its part's token mutates nothing when it
\* resumes from an await, from its catch handler or from a tick of its
\* interval: the catalog, the shared row and the token maps stay as they are.
C2_SupersededRunIsSilent ==
    [][\A r \in RunIds :
          (Active(r) /\ ~IsCurrent(r) /\ runs'[r] # runs[r])
              => /\ books' = books
                 /\ remote' = remote
                 /\ generationRunIds' = generationRunIds
                 /\ generationControllers' = generationControllers]_vars

\* C2 witness: a superseded run is still awaiting its upload, its interval has
\* fired once more and stopped itself, and the part shows the cancel message.
C2_Witness ==
    \E r \in RunIds :
        /\ runs[r].pc = "upload" /\ ~IsCurrent(r) /\ ~runs[r].timer
        /\ Present(runs[r].part)
        /\ books[runs[r].part].error = CanceledByUser

\* C3: per part at most one run holds the token: the token and the controller
\* entry name the same active run of that part, and every other active run of
\* the part has had its controller aborted (starting a run aborts the
\* outstanding one before the new token is installed).
C3_OneActiveRunPerPart ==
    /\ \A p \in Parts :
          /\ generationRunIds[p] = generationControllers[p]
          /\ generationRunIds[p] # 0 =>
                Active(generationRunIds[p]) /\ runs[generationRunIds[p]].part = p
    /\ \A r \in RunIds : Active(r) /\ ~IsCurrent(r) => runs[r].aborted

\* C3 witness: a part has an aborted outstanding run beside the newer run that
\* holds its token.
C3_Witness ==
    \E r1, r2 \in RunIds :
        /\ r1 # r2 /\ Active(r1) /\ Active(r2)
        /\ runs[r1].part = runs[r2].part
        /\ IsCurrent(r2) /\ ~IsCurrent(r1) /\ runs[r1].aborted

\* the Drive object a part's playback reference names (NoFile: none)
ReferencedFile(part) == resolvedFileId(part)

\* C4: a playback reference held by a part was produced for the part's
\* current text and voice: the Drive object it names was synthesised from
\* them, so no run or repair batch started before an edit installs audio of
\* the old content after the edit.
C4_NoStaleAudio ==
    \A p \in Parts :
        Present(p) /\ ReferencedFile(books[p]) # NoFile =>
            /\ drive[ReferencedFile(books[p])].text = books[p].text
            /\ drive[ReferencedFile(books[p])].voice = books[p].voice

\* the run of part p that holds the token is awaiting synthesis and the user
\* cancels it: the step of cancelPartGeneration(p)
CancelDuringSynthesis(p) ==
    /\ generationRunIds[p] # 0
    /\ runs[generationRunIds[p]].pc = "tts"
    /\ cancelPartGeneration(p)

\* a canceled run of part p is still awaiting synthesis
CanceledInSynthesis(p) ==
    /\ Present(p)
    /\ generationRunIds[p] = 0
    /\ books[p].error = CanceledByUser
    /\ \E r \in RunIds : runs[r].part = p /\ runs[r].pc = "tts" /\ runs[r].aborted

\* C5 as claimed: a part whose run was canceled while awaiting synthesis is in
\* the canceled state and has no playback reference at all.
C5_CanceledHasNoReference ==
    \A p \in Parts :
        CanceledInSynthesis(p) =>
            /\ ~books[p].isGenerating
            /\ books[p].progress = 0
            /\ Refs(books[p]) = NoRefs

\* steps after which the part may legitimately differ: a new run, an edit, a
\* deletion, a repair batch applying its links, a reload of the library
TouchesPart(p) ==
    \/ generatePartAudio(p)
    \/ \E t \in Texts, v \in Voices : submitPart(p, t, v)
    \/ confirmDeletePart(p)
    \/ confirmDeleteChapter
    \/ RepairPublishSettles
    \/ loadSharedLibrary

\* C5 amended: canceling a run that awaits synthesis leaves the part not
\* generating, at progress 0, with the canceled message and with exactly the
\* playback reference it had before (none if it had none): neither the cancel
\* nor the canceled run installs one; the part stays so until a new run, an
\* edit, a deletion, a repair or a reload.
C5_CancelKeepsReference ==
    [][\A p \in Parts :
          /\ CancelDuringSynthesis(p) =>
                /\ ~books'[p].isGenerating
                /\ books'[p].progress = 0
                /\ books'[p].error = CanceledByUser
                /\ Refs(books'[p]) = Refs(books[p])
          /\ (CanceledInSynthesis(p) /\ ~TouchesPart(p)) => books'[p] = books[p]]_vars

\* C5 witness: a re-generation of a part that has audio was canceled during
\* synthesis; the part shows the canceled state and still has its audio.
C5_Witness ==
    \E p \in Parts :
        /\ CanceledInSynthesis(p)
        /\ ~books[p].isGenerating /\ books[p].progress = 0
        /\ Refs(books[p]) # NoRefs

\* run r ends on its own in this step: it held the token and reaches finally
EndsOnItsOwn(r) == Active(r) /\ IsCurrent(r) /\ runs'[r].pc = "done"

\* C6: a run whose hard timeout fired, in whatever phase, ends with the part
\* not generating, at progress 0, with the timed-out message and without a
\* newly committed playback reference; the timed-out message is recorded only
\* for runs whose timeout fired, and the canceled messages never for them.
C6_TimeoutEndsTimedOut ==
    [][\A r \in RunIds :
          (EndsOnItsOwn(r) /\ Present(runs[r].part)) =>
              LET p == runs[r].part IN
              /\ runs[r].timedOut =>
                    /\ ~books'[p].isGenerating
                    /\ books'[p].progress = 0
                    /\ books'[p].error = TimedOutMsg
                    /\ Refs(books'[p]) = Refs(books[p])
              /\ ~runs[r].timedOut => books'[p].error # TimedOutMsg]_vars

\* run r commits in this step: it held the token while its upload succeeded
Commits(r) ==
    runs[r].pc = "upload" /\ IsCurrent(r) /\ runs'[r].pc = "done" /\ drive' # drive

\* C7: a run that completes synthesis, encoding and upload while it holds the
\* token has issued exactly one upload and leaves the part not generating,
\* without error, at progress 100, without inline bytes, with driveFileId the
\* uploaded object's id and audioUrl a non-empty URL of that object.
C7_CommitWritesReadyPart ==
    [][\A r \in RunIds :
          (Commits(r) /\ Present(runs[r].part)) =>
              LET p == runs[r].part IN
              /\ runs[r].uploads = 1
              /\ Len(drive') = Len(drive) + 1
              /\ drive'[Len(drive')].part = p
              /\ ~books'[p].isGenerating
              /\ books'[p].error = NoError
              /\ books'[p].progress = DoneProgress
              /\ books'[p].audioBase64 = NoAudio
              /\ books'[p].driveFileId = Len(drive')
              /\ books'[p].audioUrl # NoUrl
              /\ parseDriveFileIdFromUrl(books'[p].audioUrl) = Len(drive')]_vars

\* objects that were in the Drive folder at mount
LegacyFiles == Len(SeedDrive)

\* C7 witness: a part is ready on an object uploaded in this session.
C7_Witness ==
    \E p \in Parts :
        /\ Present(p) /\ ~books[p].isGenerating
        /\ books[p].progress = DoneProgress
        /\ books[p].driveFileId > LegacyFiles
        /\ generationRunIds[p] = 0

\* a part carries inline bytes beside a durable reference
InlineAndDurable(part) ==
    /\ part.audioBase64 # NoAudio
    /\ (part.driveFileId # NoFile \/ part.audioUrl # NoUrl \/ part.drivePublicUrl # NoUrl)

\* C8: no part of the in-memory catalog that has a durable reference (its
\* audio was uploaded) carries inline bytes beside it, and no part of a
\* catalog written to the shared row does.
C8_InlineExcludesDurable ==
    [][/\ \A p \in Parts : books'[p] # NoPart => ~InlineAndDurable(books'[p])
       /\ remote' # remote =>
            \A p \in Parts : remote'[p] # NoPart => ~InlineAndDurable(remote'[p])]_vars

\* C9: right after an edit that changes the text or the voice the part has no
\* playback reference and is idle (not generating, no error), whatever its
\* state before; an edit that changes neither keeps the reference.
C9_EditResetsPart ==
    [][\A p \in Parts, t \in Texts, v \in Voices :
          submitPart(p, t, v) =>
              IF t # books[p].text \/ v # books[p].voice
              THEN /\ Refs(books'[p]) = NoRefs
                   /\ ~books'[p].isGenerating
                   /\ books'[p].error = NoError
              ELSE Refs(books'[p]) = Refs(books[p])]_vars

\* a step of the generation run of part p: its start, a tick, its timeout, a
\* resumption, its cancellation
RunStepOf(p) ==
    \/ generatePartAudio(p)
    \/ cancelPartGeneration(p)
    \/ \E r \in RunIds :
        /\ runs[r].part = p
        /\ \/ TimerTick(r)
           \/ HardTimeout(r)
           \/ TtsSettles(r)
           \/ EncodeSettles(r)
           \/ UploadSettles(r)

\* C10: a step of the run of one part leaves every other part's fields, token,
\* controller and runs as they were (in particular un-aborted).
C10_RunLeavesSiblingsAlone ==
    [][\A p \in Parts :
          RunStepOf(p) =>
              \A q \in Parts \ {p} :
                  /\ books'[q] = books[q]
                  /\ generationRunIds'[q] = generationRunIds[q]
                  /\ generationControllers'[q] = generationControllers[q]
                  /\ \A r \in RunIds : runs[r].part = q => runs'[r] = runs[r]]_vars

\* C10 witness: a part that already had audio is being re-generated and has
\* reached its upload checkpoint while a sibling's run still awaits synthesis
\* at its start progress.
C10_Witness ==
    \E r1, r2 \in RunIds :
        /\ runs[r1].pc = "upload" /\ runs[r2].pc = "tts"
        /\ runs[r1].part # runs[r2].part
        /\ IsCurrent(r1) /\ IsCurrent(r2) /\ ~runs[r2].aborted
        /\ Present(runs[r1].part) /\ Present(runs[r2].part)
        /\ Refs(books[runs[r1].part]) # NoRefs
        /\ books[runs[r1].part].progress = UploadProgress
        /\ books[runs[r2].part].progress = StartProgress

\* C11: a press of Generate while Drive is not connected issues no run token
\* and no controller, starts no ticker, no timeout and no synthesis or upload
\* call (no run record changes, no Drive object appears) and leaves the
\* catalog, hence the part's status, progress, error and reference, and the
\* shared row as they were.
C11_NoRunWithoutDrive ==
    [][\A p \in Parts :
          (generatePartAudio(p) /\ ~isDriveConnected) =>
              /\ books' = books
              /\ generationRunIds' = generationRunIds
              /\ generationControllers' = generationControllers
              /\ runs' = runs
              /\ drive' = drive
              /\ remote' = remote]_vars

\* C11 witness: the admin is signed in without a Drive connection, a part that
\* is not generating offers its Generate button, presses have been made and no
\* run was ever started.
C11_Witness ==
    /\ isAdmin /\ ~isDriveConnected /\ clicks >= 2
    /\ \E p \in Parts : Present(p) /\ ~books[p].isGenerating
    /\ \A r \in RunIds : runs[r] = IdleRun
    /\ \A p \in Parts : generationRunIds[p] = 0 /\ generationControllers[p] = 0

\* ------------------------------------------------------ storage properties

\* the step on which call c returns to its caller
Returns(c, op) ==
    /\ calls[c].pc # "done"
    /\ calls'[c].pc = "done"
    /\ calls'[c].op = op

\* C12: a loadBooks whose remote stage failed (retries exhausted, a
\* connectivity error, a store-reported error or a failing migration write)
\* returns without raising, with the catalog last stored in the local cache
C12_LoadFallsBackToCache ==
    [][\A c \in Calls :
          (Returns(c, "load") /\ calls'[c].remoteFailed)
              => /\ ~calls'[c].raised
                 /\ calls'[c].ret = loadBooksFromIndexedDb]_vars

\* the step on which the migrating loadBooksFromSupabase of call c returns
MigrationReturns(c) ==
    /\ calls[c].pc = "migrate"
    /\ calls'[c].pc # "migrate"
    /\ ~calls'[c].remoteFailed

\* C13: with the row under the current key absent or empty and a non-empty
\* catalog under a different legacy key, loadBooksFromSupabase returns the
\* legacy catalog, and at its return the row under the current key holds that
\* same catalog
C13_MigrationStoresWhatItReturns ==
    [][\A c \in Calls :
          (/\ MigrationReturns(c)
           /\ ~NonEmpty(calls[c].sharedBooks)
           /\ config.legacyDeviceId = "other"
           /\ NonEmpty(fetchBooksByKey(legacyRow)))
              => /\ calls'[c].remoteBooks = fetchBooksByKey(legacyRow)
                 /\ remote' = calls'[c].remoteBooks]_vars

\* the first load migrated the legacy catalog and the second load has returned
\* with no save issued in the session; remoteBooks is what
\* loadBooksFromSupabase returned to loadBooks
LoadedTwiceAfterMigration ==
    /\ calls[1].op = "load" /\ calls[1].pc = "done"
    /\ calls[1].wrote /\ ~calls[1].remoteFailed
    /\ calls[2].op = "load" /\ calls[2].pc = "done"
    /\ ~calls[2].remoteFailed

\* C14: a second load after a migrating load returns a catalog equal to the one
\* the first load returned, writes nothing, and leaves the row under the
\* current key as the first load left it
C14_MigrationIdempotent ==
    LoadedTwiceAfterMigration
        => /\ calls[2].remoteBooks = calls[1].remoteBooks
           /\ ~calls[2].wrote
           /\ remote = sanitizeBooksForSupabase(calls[1].remoteBooks)

\* C15: a loadBooks whose get for the current key returned a non-empty catalog
\* returns exactly that catalog, with no legacy lookup and no remote write,
\* whatever the state or availability of the local cache
C15_SharedCatalogIsTheResult ==
    [][\A c \in Calls :
          (Returns(c, "load") /\ config.configured /\ NonEmpty(calls'[c].sharedBooks))
              => /\ ~calls'[c].raised
                 /\ calls'[c].ret = calls'[c].sharedBooks
                 /\ ~calls'[c].legacyLookup
                 /\ ~calls'[c].wrote]_vars

\* C16: with no remote store configured loadBooks makes no remote call and
\* returns the catalog last stored in the local cache, the empty catalog when
\* nothing was stored
C16_UnconfiguredLoadReadsCache ==
    [][\A c \in Calls :
          (Returns(c, "load") /\ ~config.configured)
              => /\ ~calls'[c].remoteCalled
                 /\ ~calls'[c].raised
                 /\ calls'[c].ret = loadBooksFromIndexedDb]_vars

\* the step on which the save of call c issues its remote put
IssuesPut(c) ==
    /\ calls[c].pc # "put"
    /\ calls'[c].pc = "put"
    /\ calls'[c].op = "save"

\* C17: saveBooks has written its catalog to the local cache when it issues
\* the remote put, and when it returns (no other call having been made by the
\* session) the local cache holds the catalog passed, whatever the put did
C17_CacheWrittenFirst ==
    [][\A c \in Calls :
          /\ IssuesPut(c) => calls'[c].cachedAtPut
          /\ (/\ Returns(c, "save")
              /\ ~(calls'[c].raised /\ ~calls'[c].remoteCalled)
              /\ \A d \in Calls \ {c} : calls[d].pc = "idle")
                 => cache' = calls'[c].arg]_vars

\* C18: a saveBooks whose remote put failed (retries exhausted, a connectivity
\* error or a store-reported error) returns without raising, and the
\* in-memory catalog is unchanged
C18_SaveSwallowsPutFailure ==
    [][\A c \in Calls :
          (Returns(c, "save") /\ calls'[c].remoteFailed)
              => /\ ~calls'[c].raised
                 /\ books' = books]_vars

\* a save followed by a load, neither meeting a remote failure
SavedThenLoaded ==
    /\ config.configured
    /\ calls[1].op = "save" /\ calls[1].pc = "done"
    /\ ~calls[1].remoteFailed /\ ~calls[1].raised
    /\ calls[2].op = "load" /\ calls[2].pc = "done"
    /\ ~calls[2].remoteFailed /\ ~calls[2].raised

\* C19: for every catalog and every state of the legacy key, saveBooks
\* followed by loadBooks with no remote outage returns a catalog equal to the
\* one that was saved
C19_SaveLoadRoundTrip ==
    SavedThenLoaded => calls[2].ret = calls[1].arg

\* the save of call c reached the store and returned without a failure
Succeeded(c) ==
    /\ calls[c].op = "save"
    /\ calls[c].pc = "done"
    /\ calls[c].remoteCalled
    /\ ~calls[c].remoteFailed

\* a session that only saved, with every save settled and no request left
\* in flight
WriterSettled ==
    /\ \A c \in Calls : calls[c].op \in {"save", "none"} /\ ~Pending(c)
    /\ net = {}
    /\ \E c \in Calls : Succeeded(c)

\* C20: once every save of a single writer has settled, the row under the
\* current key holds the catalog of the writer's most recent successful
\* saveBooks call
C20_LastSuccessfulSaveWins ==
    WriterSettled =>
        \A c \in Calls :
            (Succeeded(c) /\ \A d \in Calls : d > c => ~Succeeded(d))
                => remote = sanitizeBooksForSupabase(calls[c].arg)

\* ------------------------------------------------------ retry properties

\* the positions at which a call awaits a remote store call
StoreCallPcs == {"getShared", "getLegacy", "migrate", "put"}

\* the attempts allowed to the store call awaited at pc
AllowedAttempts(pc) ==
    IF pc \in {"getShared", "getLegacy"} THEN SUPABASE_LOAD_RETRIES ELSE SUPABASE_SAVE_RETRIES

\* the failure with which an attempt of call c's store call ends on this
\* step, "none" when no attempt of c ends in failure
FailureKind(c) ==
    IF calls[c].pc \notin StoreCallPcs THEN "none"
    ELSE IF calls'[c].thrown # NoErr THEN calls'[c].thrown.kind
    ELSE IF calls'[c].lastError # calls[c].lastError /\ calls'[c].lastError # NoErr
         THEN calls'[c].lastError.kind
    ELSE "none"

\* the same store call is attempted once more
AttemptedAgain(c) ==
    /\ calls'[c].pc = calls[c].pc
    /\ calls'[c].attempt = calls[c].attempt + 1

\* C21: a failed attempt of a store call is followed by another attempt
\* exactly when the failure is of the connectivity or timeout class and fewer
\* than the allowed attempts were made, whether the failure arrived as a
\* rejection or in the error field of the response
C21_RetryIffRetryable ==
    [][\A c \in Calls :
          FailureKind(c) # "none"
              => (AttemptedAgain(c)
                    <=> /\ isRetryableSupabaseError(FailureKind(c))
                        /\ calls[c].attempt < AllowedAttempts(calls[c].pc))]_vars

\* the step on which the store call awaited by call c throws after its last
\* permitted attempt
ThrowsAfterLastAttempt(c) ==
    /\ calls[c].pc \in StoreCallPcs
    /\ calls[c].attempt = AllowedAttempts(calls[c].pc)
    /\ calls[c].thrown = NoErr
    /\ calls'[c].thrown # NoErr

\* C22: when every permitted attempt of a store call has failed, the error
\* surfaced is that of the last attempt made and no result value is returned
C22_LastErrorSurfaces ==
    [][\A c \in Calls :
          ThrowsAfterLastAttempt(c)
              => /\ calls'[c].thrown.attempt = calls[c].attempt
                 /\ calls'[c].remoteBooks = Absent
                 /\ calls'[c].ret = Absent]_vars

\* C22 witness: a get has failed on all three attempts, the last one with a
\* rejected fetch, and the call has ended
C22_Witness ==
    \E c \in Calls :
        /\ calls[c].pc = "done"
        /\ calls[c].op = "load"
        /\ calls[c].thrown = [kind |-> "network", attempt |-> SUPABASE_LOAD_RETRIES]

\* ------------------------------------------------------ repair properties

\* the step on which a repair batch resumes from its last publish call
RepairEnds == RepairPublishSettles /\ repair.next = Len(repair.targets)

\* C23: a repair batch targets every part with a resolvable file id, calls
\* publish once for each, carries on after a failure, and reports
\* repaired + failed = targets, with failed the number of targets whose
\* public-read grant failed and the first failure's message
C23_RepairReportsGrantFailures ==
    [][/\ RepairStart => repair'.targets = RepairTargets(books, 1)
       /\ (RepairPublishSettles /\ ~RepairEnds)
             => /\ repair'.pc = "publishing"
                /\ repair'.next = repair.next + 1
                /\ repair'.targets = repair.targets
                /\ repair.firstFailureMessage # ""
                      => repair'.firstFailureMessage = repair.firstFailureMessage
       /\ RepairEnds
             => /\ repair'.report.total = Len(repair.targets)
                /\ repair'.report.ok + repair'.report.failed = repair'.report.total
                /\ repair'.report.failed = repair'.report.grantFailed
                /\ repair'.report.failed > 0 => repair'.report.firstFailureMessage # ""
                /\ repair.firstFailureMessage # ""
                      => repair'.report.firstFailureMessage = repair.firstFailureMessage]_vars

\* the links the batch holds after its last publish call, told from the count
\* it reports
FinalLinks ==
    IF repair'.report.ok > Cardinality(repair.repairedLinks)
    THEN repair.repairedLinks \cup
            {[partId |-> repair.targets[repair.next].partId,
              url |-> buildDrivePublicUrl(repair.targets[repair.next].fileId)]}
    ELSE repair.repairedLinks

\* C24: no catalog mutation while publish calls are outstanding;
\* after the last call exactly the parts whose publish succeeded get the new
\* audioUrl and drivePublicUrl, every other part and every other field
\* staying as it was
C24_RepairWritesOnlyUrls ==
    [][/\ (RepairPublishSettles /\ ~RepairEnds) => books' = books
       /\ RepairEnds =>
             \A p \in Parts :
                 books'[p] =
                     IF Present(p) /\ RepairedUrl(FinalLinks, p) # NoUrl
                     THEN [books[p] EXCEPT !.audioUrl = RepairedUrl(FinalLinks, p),
                                           !.drivePublicUrl = RepairedUrl(FinalLinks, p)]
                     ELSE books[p]]_vars

\* the frame of the batch's catalog update once the file id it restores is
\* allowed for: a part that has no driveFileId when the links are applied also
\* gets the id parsed from the new URL (it holds in every reachable state)
RepairFrameWithFileId ==
    [][/\ (RepairPublishSettles /\ ~RepairEnds) => books' = books
       /\ RepairEnds =>
             \A p \in Parts :
                 books'[p] =
                     IF Present(p) /\ RepairedUrl(FinalLinks, p) # NoUrl
                     THEN [books[p] EXCEPT
                             !.audioUrl = RepairedUrl(FinalLinks, p),
                             !.drivePublicUrl = RepairedUrl(FinalLinks, p),
                             !.driveFileId =
                                 IF books[p].driveFileId # NoFile THEN books[p].driveFileId
                                 ELSE parseDriveFileIdFromUrl(RepairedUrl(FinalLinks, p))]
                     ELSE books[p]]_vars

\* ------------------------------------------------------ public-read properties

\* C25: the object named by a part that a run commits as ready has been given
\* public-read access; a refused grant keeps the part from being committed
C25_CommittedObjectIsPublic ==
    [][\A r \in RunIds :
          (Commits(r) /\ Present(runs[r].part))
              => LET p == runs[r].part IN
                 /\ books'[p].driveFileId # NoFile
                 /\ drive'[books'[p].driveFileId].public]_vars

\* ------------------------------------------------------ encoder properties

\* C26: pcmToMp3 rejects a byte length that is not a multiple of 2 with
\* DecodeError and a channel count other than 1 or 2 with
\* UnsupportedChannelCount, encoding nothing in either case
C26_InvalidInputRejected ==
    [][/\ (encoder'.pc = "done" /\ encoder'.byteLength % 2 # 0)
             => /\ encoder'.status = "DecodeError"
                /\ encoder'.blocks = 0
       /\ (encoder.pc = "idle" /\ encoder'.pc # "idle" /\ encoder'.byteLength % 2 = 0
               /\ encoder'.numChannels \notin {1, 2})
             => /\ encoder'.pc = "done"
                /\ encoder'.status = "UnsupportedChannelCount"
       /\ (EncodeBlock /\ encoder.numChannels \notin {1, 2})
             => encoder'.blocks = encoder.blocks]_vars

\* the larger half of n
HalfUp(n) == (n + 1) \div 2

\* C27: for 2-channel input every block is split so that the even-indexed
\* samples form the left sub-block and the odd-indexed samples the right one,
\* in order and of equal length; a position missing because the block has an
\* odd number of samples is zero and no sample is dropped
C27_StereoSplitKeepsEverySample ==
    [][(EncodeBlock /\ encoder.numChannels = 2)
          => LET sampleChunk == Subarray(encoder.i, encoder.byteLength \div 2)
                 half == HalfUp(Len(sampleChunk))
             IN /\ Len(encoder'.left) = half
                /\ Len(encoder'.right) = half
                /\ \A m \in 1..half :
                      /\ encoder'.left[m] = sampleChunk[2 * m - 1]
                      /\ encoder'.right[m] = IF 2 * m <= Len(sampleChunk)
                                             THEN sampleChunk[2 * m] ELSE 0]_vars

\* ----------------------------------------------- properties of the session

\* a request the server let through: synthesis answered with audio, the
\* upload stored an object, a publish granted a permission or returned a link
ServedTts(r) == runs[r].pc = "tts" /\ runs'[r].pc = "encode"
ServedUpload == Len(drive') > Len(drive)
ServedPublish ==
    \/ Len(drive') = Len(drive) /\ drive' # drive
    \/ repair'.pc = "publishing" /\ repair'.repairedLinks # repair.repairedLinks

\* a step of the create/edit/delete handlers that rewrites the catalog, or of
\* generatePartAudio that starts a run
HandlerActs ==
    \/ \E p \in Parts, t \in Texts, v \in Voices : submitPart(p, t, v) /\ books' # books
    \/ \E p \in Parts : confirmDeletePart(p) /\ books' # books
    \/ confirmDeleteChapter /\ books' # books
    \/ \E p \in Parts : generatePartAudio(p) /\ runs' # runs

\* C28: without a valid, unexpired admin session the server serves no
\* synthesis, upload or publish request (it answers 401 before any external
\* call), and the client's create, edit, delete and generate handlers neither
\* rewrite the catalog nor start a run.
C28_NoSessionNoAdminAction ==
    [][/\ \A r \in RunIds : ServedTts(r) => runs[r].authorized
       /\ ServedUpload => \E r \in RunIds : runs[r].pc = "upload" /\ runs[r].authorized
       /\ ServedPublish => repair.authorized
       /\ ~requireAdmin => ~HandlerActs]_vars

\* the server half alone: every served request was issued under a valid session
ServerRejectsWithoutSession ==
    [][/\ \A r \in RunIds : ServedTts(r) => runs[r].authorized
       /\ ServedUpload => \E r \in RunIds : runs[r].pc = "upload" /\ runs[r].authorized
       /\ ServedPublish => repair.authorized]_vars

\* the client half where the session cannot lapse under the interface
ClientHandlersNeedSession == [][~requireAdmin => ~HandlerActs]_vars

\* -------------------------------------------- properties of a run's exits

\* run r leaves through its finally block in this step
Exits(r) == Active(r) /\ runs'[r].pc = "done"

\* the exit of a run stops its interval and its hard timeout and, when the
\* run still holds the segment's token, removes token and controller
ExitCleansUp ==
    [][\A r \in RunIds : Exits(r) =>
          /\ ~runs'[r].timer /\ ~runs'[r].hardTimeout
          /\ generationRunIds[runs[r].part] = r =>
                /\ generationRunIds'[runs[r].part] = 0
                /\ generationControllers'[runs[r].part] = 0]_vars

\* a segment without an active run has no token, no controller and no
\* armed interval
IdleSegmentHasNoRefs ==
    \A p \in Parts : ~HasActiveRun(p) =>
        /\ generationRunIds[p] = 0
        /\ generationControllers[p] = 0
        /\ \A r \in RunIds : ~(runs[r].timer /\ runs[r].part = p)

\* C29: when a run terminates by any exit its ticker and its hard timeout
\* are stopped and, if its token is still the segment's current one, the
\* token and controller entries are removed; so a segment with no active run
\* has no token or controller recorded and no ticker that can fire.
C29_ExitClearsRunState == ExitCleansUp /\ []IdleSegmentHasNoRefs

\* a run that held its segment's token has left and the segment is idle again
C29_Witness ==
    \E r \in RunIds : /\ runs[r].pc = "done"
                      /\ \E p \in Parts : /\ ~HasActiveRun(p)
                                          /\ books[p] # NoPart
                                          /\ books[p].progress = DoneProgress
                                          /\ generationRunIds[p] = 0

\* ------------------------------------------------ properties of the ticker

\* Math.min
Least(a, b) == IF a < b THEN a ELSE b

\* run r starts in this step
Starts(r) == runs[r].pc = "idle" /\ runs'[r].pc = "tts"

\* the interval of run r writes in this step
Ticks(r) == Active(r) /\ Active(r)' /\ runs'[r].progress # runs[r].progress

\* a run starts at StartProgress, and a tick writes the previous tick value
\* plus TickStep, at most TickCap, to the run's segment
TickerSteps ==
    [][\A r \in RunIds :
          /\ Starts(r) => /\ runs'[r].progress = StartProgress
                          /\ books'[runs'[r].part].progress = StartProgress
          /\ Ticks(r) => /\ runs'[r].progress = Least(runs[r].progress + TickStep, TickCap)
                         /\ books[runs[r].part] # NoPart
                               => books'[runs[r].part].progress = runs'[r].progress]_vars

\* the ticker's value stays in [2, 92], below the 100 of a commit
TickerBelowDone ==
    \A r \in RunIds : Active(r) =>
        /\ runs[r].progress \in StartProgress..TickCap
        /\ runs[r].progress < DoneProgress

\* a segment's progress is a percentage
ProgressInRange == \A p \in Parts : books[p] # NoPart => books[p].progress \in 0..DoneProgress

\* C30: a run starts with progress 2 and every tick sets the segment's
\* progress to min(previous tick value + 7, 92); the ticker's value stays in
\* [2, 92] and does not reach 100 before the run commits, and a segment's
\* progress is within [0, 100] in every reachable state.
C30_TickerProgressBounded == TickerSteps /\ [](TickerBelowDone /\ ProgressInRange)

\* the ticker of a run has reached its cap and written it to the segment
C30_Witness ==
    \E r \in RunIds : /\ Active(r)
                      /\ runs[r].progress = TickCap
                      /\ generationRunIds[runs[r].part] = r
                      /\ books[runs[r].part].progress = TickCap

\* ------------------------------------------- properties of withRetry's loop

\* an attempt of call c's store call ends on this step
AttemptEnds(c) == calls[c].pc \in StoreCallPcs /\ calls'[c] # calls[c]

\* withRetry's catch ran on this step: the task of this attempt threw
CaughtNow(c) ==
    /\ AttemptEnds(c)
    /\ calls'[c].lastError # NoErr
    /\ calls'[c].lastError.attempt = calls[c].attempt

\* withRetry leaves its loop by `throw` on this step
RaisesNow(c) == CaughtNow(c) /\ calls'[c].thrown = calls'[c].lastError

\* the loop of withRetry: attempts are counted from 1 up to retries; an
\* attempt whose task returns ends the loop with no further attempt; a caught
\* attempt is followed by the next one or, at the last one, by the throw
RetryLoopSteps ==
    [][\A c \in Calls :
          /\ (AttemptEnds(c) /\ ~CaughtNow(c)) => ~AttemptedAgain(c)
          /\ CaughtNow(c) => (AttemptedAgain(c) \/ RaisesNow(c))
          /\ AttemptedAgain(c) => calls[c].attempt < AllowedAttempts(calls[c].pc)
          /\ (CaughtNow(c) /\ calls[c].attempt = AllowedAttempts(calls[c].pc))
                => RaisesNow(c)]_vars

\* no store call is at an attempt beyond those allowed to it
AttemptsBounded ==
    \A c \in Calls : calls[c].pc \in StoreCallPcs
                        => calls[c].attempt \in 1..AllowedAttempts(calls[c].pc)

\* every store call that is awaited comes to an end
RetryTerminates ==
    \A c \in Calls : \A pc \in StoreCallPcs :
        (calls[c].pc = pc) ~> (calls[c].pc # pc)

\* C31: withRetry always terminates: the task is invoked at most `retries`
\* times (3 for a get, 2 for a put), the first attempt that succeeds ends the
\* loop with its result and no further attempt, and otherwise the loop raises
\* after the last attempt.
C31_RetryTerminates == RetryLoopSteps /\ []AttemptsBounded /\ RetryTerminates

\* a put has succeeded on its second and last attempt, after a first one
\* that was caught
C31_Witness ==
    \E c \in Calls :
        /\ calls[c].pc = "done"
        /\ calls[c].op = "save"
        /\ calls[c].attempt = SUPABASE_SAVE_RETRIES
        /\ calls[c].thrown = NoErr
        /\ ~calls[c].remoteFailed

\* ---------------------------------------------- properties of withTimeout

Attempts == 1..SUPABASE_LOAD_RETRIES

\* the promise of attempt a has been resolved or rejected
IsSettled(a) == timeouts.at[a].promise \notin {"none", "pending"}

\* a promise is settled by at most one resolve or reject, and what it settled
\* with is the request's outcome when the timer was cleared in time, else the
\* timed-out error, which isRetryableSupabaseError accepts
SettledOutcome ==
    \A a \in Attempts :
        LET t == timeouts.at[a]
        IN /\ t.settled <= 1
           /\ IsSettled(a) <=> t.settled = 1
           /\ IsSettled(a) =>
                IF t.timer = "cleared"
                THEN t.promise = t.call /\ t.promise \in WrappedOutcomes
                ELSE /\ t.timer = "fired"
                     /\ t.promise = "timeout"
                     /\ Rejects(t.promise)
                     /\ isRetryableSupabaseError(t.promise)

\* a request settling while the timer is armed clears it and decides the
\* promise; nothing that arrives after the promise is settled changes it
SettleSteps ==
    [][\A a \in Attempts :
          /\ (timeouts.at[a].timer = "armed" /\ timeouts'.at[a].call \in WrappedOutcomes)
                => /\ timeouts'.at[a].timer = "cleared"
                   /\ timeouts'.at[a].promise = timeouts'.at[a].call
          /\ IsSettled(a) => timeouts'.at[a].promise = timeouts.at[a].promise]_vars

\* a promise returned by withTimeout does not stay pending
EverySettles == \A a \in Attempts : (timeouts.at[a].promise = "pending") ~> IsSettled(a)

\* C32: withTimeout settles exactly once: with the wrapped call's outcome if
\* the call settles before the timer fires (the timer is then cleared),
\* otherwise with a timed-out error that isRetryableSupabaseError classifies
\* as retryable; an outcome of the wrapped call that arrives after the
\* timeout does not change what the caller observed.
C32_TimeoutSettlesOnce == []SettledOutcome /\ SettleSteps /\ EverySettles

\* the request of an attempt that had timed out has answered afterwards
C32_Witness ==
    \E a \in Attempts :
        /\ timeouts.at[a].timer = "fired"
        /\ timeouts.at[a].promise = "timeout"
        /\ timeouts.at[a].call = "ok"

\* --------------------------------------------- properties of the migration

\* call c issues its read of the legacy key on this step
ReadsLegacy(c) == calls[c].pc = "getShared" /\ calls'[c].pc = "getLegacy"

\* the upsert of call c's migration replaces the row under the current key
MigrationReplaces(c) == MigrateSettles(c) /\ remote' # remote

\* the legacy key is read only when the current row was found absent or
\* empty and a legacy key other than the current key is recorded
LegacyReadOnlyWhenEmpty ==
    [][\A c \in Calls : ReadsLegacy(c) =>
          /\ ~NonEmpty(fetchBooksByKey(remote))
          /\ config.legacyDeviceId = "other"]_vars

\* C33: loadBooksFromSupabase reads the legacy key only when the row under
\* the current key is absent or empty and a legacy key differing from the
\* current key is recorded; a non-empty catalog stored under the current key
\* is never replaced by legacy data, however a migrating load interleaves
\* with saves of other sessions.
C33_MigrationKeepsCurrentRow ==
    [][\A c \in Calls :
          /\ ReadsLegacy(c) => /\ ~NonEmpty(fetchBooksByKey(remote))
                               /\ config.legacyDeviceId = "other"
          /\ MigrationReplaces(c) => ~NonEmpty(fetchBooksByKey(remote))]_vars

\* the same where no other session saves during the load
MigrationAlone ==
    [][\A c \in Calls : MigrationReplaces(c) => ~NonEmpty(fetchBooksByKey(remote))]_vars

\* ------------------------------------------- properties of fetchBooksByKey

\* the row call c is reading
RowRead(c) == IF calls[c].pc = "getShared" THEN remote ELSE legacyRow

\* fetchBooksByKey returns to call c on this step
FetchReturns(c) ==
    /\ calls[c].pc \in {"getShared", "getLegacy"}
    /\ calls'[c] # calls[c]
    /\ calls'[c].thrown = NoErr
    /\ ~AttemptedAgain(c)

\* fetchBooksByKey raises to call c on this step
FetchRaises(c) ==
    /\ calls[c].pc \in {"getShared", "getLegacy"}
    /\ calls[c].thrown = NoErr
    /\ calls'[c].thrown # NoErr

\* the store reported an error, or the last permitted attempt failed
StoreErrorOrExhausted(c) ==
    \/ calls'[c].thrown.kind \in {"storeError", "fetchErrorResponse"}
    \/ /\ calls'[c].thrown.kind \in {"timeout", "network"}
       /\ calls[c].attempt = SUPABASE_LOAD_RETRIES

\* a read of an absent row returns null and of a payload that is not an
\* array returns []
FetchResults ==
    [][\A c \in Calls :
          (FetchReturns(c) /\ calls[c].pc = "getShared")
              => /\ remote = Absent => calls'[c].sharedBooks = Absent
                 /\ remote = NotAnArray => calls'[c].sharedBooks = EmptyLibrary]_vars

\* loadBooksFromSupabase ended without a failed request, having found
\* nothing under the current key and no legacy data
FoundNothing(c) ==
    /\ calls[c].pc = "done"
    /\ calls[c].op = "load"
    /\ calls[c].remoteCalled /\ ~calls[c].remoteFailed
    /\ ~NonEmpty(calls[c].sharedBooks)
    /\ calls[c].legacyBooks = Absent

\* ... and then returned [] and wrote nothing to the store
EmptyLoadIsQuiet ==
    \A c \in Calls : FoundNothing(c) =>
        /\ calls[c].remoteBooks = EmptyLibrary
        /\ ~calls[c].wrote

\* C34: fetchBooksByKey returns null when no row exists for the key, returns
\* the empty catalog when the row's payload is not an array, and raises only
\* when the store reports an error or every attempt fails; when the current
\* row is absent or empty and there is no legacy data, the load returns the
\* empty catalog without raising and without writing to the remote store.
C34_FetchRaisesOnlyOnStoreFailure ==
    /\ FetchResults
    /\ [][\A c \in Calls : FetchRaises(c) => StoreErrorOrExhausted(c)]_vars
    /\ []EmptyLoadIsQuiet

\* the parts of C34 other than the cause of a raise
FetchReturnsAndQuietLoad == FetchResults /\ []EmptyLoadIsQuiet

\* ------------------------------------------ properties of the mono encoding

\* the input samples, in order
AllSamples(byteLength) == [k \in 1..(byteLength \div 2) |-> Sample(k - 1)]

\* the non-overlapping concatenation of a sequence of byte sequences
RECURSIVE Flatten(_)
Flatten(seqs) == IF seqs = <<>> THEN <<>> ELSE Head(seqs) \o Flatten(Tail(seqs))

\* a mono call over whole 16-bit samples
MonoCall == encoder.numChannels = 1 /\ encoder.byteLength % 2 = 0

\* during the loop the encoder has been fed a prefix of the input, block by
\* block: every block but the last made is full
FedInOrder ==
    (MonoCall /\ encoder.pc \in {"loop", "done"}) =>
        /\ encoder.fed = SubSeq(AllSamples(encoder.byteLength), 1, Len(encoder.fed))
        /\ Len(encoder.mono) <= sampleBlockSize
        /\ Len(encoder.fed) = Least(encoder.blocks * sampleBlockSize, encoder.byteLength \div 2)
        /\ Len(encoder.flushes) = 0 \/ encoder.pc = "done"

\* at the return every sample has been fed, the encoder was flushed once and
\* the result is the block outputs in order followed by the flush bytes
MonoResult ==
    (MonoCall /\ encoder.pc = "done") =>
        /\ encoder.fed = AllSamples(encoder.byteLength)
        /\ Len(encoder.flushes) = 1
        /\ encoder.result = Flatten(encoder.outputs) \o encoder.flushes[1]
        /\ Len(encoder.result) = LengthOfFirst(encoder.outputs, Len(encoder.outputs))
                                    + Len(encoder.flushes[1])

\* C35: for mono input pcmToMp3 passes every input sample to the encoder
\* exactly once, in input order, in consecutive blocks of at most 1152
\* samples, then flushes the encoder exactly once; the result is the
\* concatenation of the non-empty block outputs in order followed by the
\* flush bytes, and its length is the sum of their lengths.
C35_MonoEncodesEverySampleOnce == FedInOrder /\ MonoResult

\* a mono call over a full block and a short one has returned bytes of both
\* blocks and of the flush
C35_Witness ==
    /\ MonoCall
    /\ encoder.pc = "done"
    /\ encoder.blocks = 2
    /\ Len(encoder.fed) > sampleBlockSize
    /\ Len(encoder.mp3Data) = 3

\* ------------------------------------- properties of the persistence effect

\* nothing but loading has happened in the session: no handler has been
\* invoked, nobody is logged in, no run and no repair was started
OnlyLoaded ==
    /\ clicks = 0 /\ clicks' = 0
    /\ ~isAdmin /\ ~isAdmin'
    /\ \A r \in RunIds : runs'[r].pc = "idle"
    /\ repair'.pc = "idle"

\* the persistence effect runs saveBooks after this load: loaded is set and
\* not (the load failed and the catalog is empty)
PersistsAfterLoad ==
    /\ loadSharedLibrary
    /\ loaded'
    /\ ~(initialLoadFailed' /\ books' = EmptyLibrary)

\* C36: a session in which no catalog edit, generation, cancellation or
\* repair has been performed (a visitor who only loads and plays the library)
\* never issues a put to the remote catalog store.
C36_VisitorNeverPuts ==
    [][OnlyLoaded => /\ ~PersistsAfterLoad
                     /\ remote' = remote
                     /\ saveFailures' = saveFailures]_vars

\* ---------------------------------------------------------------------------
\* Catalog edits around the first load

\* submitPart in add mode: a new segment is appended to the selected chapter
submitPartAdd(partId) ==
    /\ isAdmin
    /\ books[partId] = NoPart
    /\ Click
    /\ setBooks([books EXCEPT ![partId] = NewPart(partId)])
    /\ UNCHANGED <<uiVars, tokenVars, runs, repair, drive>>

MountNext ==
    \/ Next
    \/ \E p \in Parts : submitPartAdd(p)

\* the App with segment creation, which is possible before the first load settles
MountSpec == Init /\ [][MountNext]_vars

\* C37: no saveBooks is issued before the first loadBooks has settled; after a
\* failed load none is issued while the in-memory catalog is still empty; so a
\* failed or pending load never overwrites the remote catalog with an empty one.
PutIssued == remote' # remote \/ saveFailures' # saveFailures

NoPutBeforeLoadSettles == [][~loaded' => ~PutIssued]_vars

NoPutWhileFailedAndEmpty ==
    [][(initialLoadFailed' /\ books' = EmptyLibrary) => ~PutIssued]_vars

EmptyOverwriteNeedsGoodLoad ==
    [][(remote' # remote /\ sanitizeBooksForSupabase(EmptyLibrary) = remote')
        => (loaded' /\ ~initialLoadFailed')]_vars

C37_NoSaveBeforeOrAfterFailedLoad ==
    /\ NoPutBeforeLoadSettles
    /\ NoPutWhileFailedAndEmpty
    /\ EmptyOverwriteNeedsGoodLoad

\* a failed load left the catalog empty in memory while the remote one is not,
\* after a segment had been created before the load settled
C37_Witness ==
    /\ loaded /\ initialLoadFailed
    /\ books = EmptyLibrary
    /\ remote # EmptyLibrary
    /\ clicks > 0

\* a segment was created while the first load was still pending
EditBeforeLoadSettles == ~loaded /\ books # EmptyLibrary

\* C38: within one generation run, from the marking (progress 2) until the run
\* terminates, the segment's progress never decreases; once the upload-start
\* checkpoint (96) is written no later tick lowers it.
SameRunContinues(p) ==
    /\ generationRunIds[p] # 0
    /\ generationRunIds'[p] = generationRunIds[p]
    /\ books[p] # NoPart /\ books'[p] # NoPart
    /\ books[p].isGenerating /\ books'[p].isGenerating

\* the steps of a run itself: its ticks and the settling of its stages
RunOwnSteps ==
    \E r \in RunIds : TimerTick(r) \/ TtsSettles(r) \/ EncodeSettles(r) \/ UploadSettles(r)

C38_ProgressMonotoneInRun ==
    [][\A p \in Parts :
        (SameRunContinues(p) /\ RunOwnSteps)
            => books'[p].progress >= books[p].progress]_vars

\* before the checkpoint is written the run's own steps never lower the progress
MonotoneBeforeCheckpoint ==
    [][\A p \in Parts :
        (SameRunContinues(p) /\ RunOwnSteps /\ runs[generationRunIds[p]].pc # "upload")
            => books'[p].progress >= books[p].progress]_vars

\* C39: in every reachable state a segment with isGenerating = true has an
\* outstanding run token in the session, also right after loadBooks returned a
\* catalog that was persisted while a run was in flight.
HoldsToken(p) == generationRunIds[p] # 0

C39_GeneratingHasToken ==
    \A p \in Parts : (books[p] # NoPart /\ books[p].isGenerating) => HoldsToken(p)

\* the flag as the shared row stores it: set only while the saving session's run
\* holds the token, or left behind by it
StoredGenerating(p) == remote[p] # NoPart /\ remote[p].isGenerating

\* without a load after the first one the flag and the token agree
TokenKeptBetweenLoads ==
    [][(C39_GeneratingHasToken /\ ~loadSharedLibrary) => C39_GeneratingHasToken']_vars

\* a load installs the stored flag whatever the session's tokens are
LoadInstallsStoredFlag ==
    [][(loadSharedLibrary /\ books' # EmptyLibrary)
        => \A p \in Parts : books'[p] # NoPart
              => books'[p].isGenerating = StoredGenerating(p)]_vars

\* C40: a run that is canceled, superseded, or whose segment (or its chapter or
\* book) is deleted before it has issued its upload never issues an upload
\* afterwards: it creates no object in storage and mutates the catalog no more.
LostBeforeUpload(r) ==
    /\ runs[r].pc \in {"tts", "encode"}
    /\ ~IsCurrent(r)

C40_LostRunNeverUploads ==
    [][\A r \in RunIds :
          LostBeforeUpload(r)
              => /\ runs'[r].pc # "upload"
                 /\ runs'[r].uploads = 0
                 /\ Active(r)' => ~IsCurrent(r)'
                 /\ runs'[r] # runs[r]
                        => /\ drive' = drive
                           /\ books' = books
                           /\ remote' = remote]_vars

\* the segment of a run that awaits its encoding has been deleted
C40_Witness ==
    \E r \in RunIds :
        /\ runs[r].pc = "encode"
        /\ LostBeforeUpload(r)
        /\ books[runs[r].part] = NoPart

\* a canceled run awaits its synthesis or encoding
CanceledRunPending ==
    \E r \in RunIds : /\ LostBeforeUpload(r)
                      /\ generationRunIds[runs[r].part] = 0
                      /\ books[runs[r].part] # NoPart

\* a superseded run awaits its synthesis or encoding
SupersededRunPending ==
    \E r \in RunIds : LostBeforeUpload(r) /\ generationRunIds[runs[r].part] # 0

====
